---------------------------- MODULE Spec2Model ----------------------------
(***************************************************************************)
(* Change detection and duplicate suppression of the Apache Answers /      *)
(* Teams bridge: the baseline of AnswersApiService.checkForNewPosts, the   *)
(* SentQuestionsTracker store, the AnswerTracker store and the poll cycle  *)
(* of PostMonitor interleaved with the /callback/teams-message handler.    *)
(*                                                                         *)
(* Identifiers are positive integers (the forum's ids are non-empty        *)
(* strings); NoId stands for null.  Strings are sequences of characters.   *)
(* Time is Date.now() in milliseconds.                                     *)
(***************************************************************************)
EXTENDS Integers, Sequences, FiniteSets, TLC

VARIABLES
    now,                \* Date.now(), milliseconds
    lastCheckedPostId,  \* AnswersApiService.lastCheckedPostId (the baseline)
    sentQuestions,      \* SentQuestionsTracker.sentQuestions, in Map insertion order
    trackedQuestions,   \* AnswerTracker's per-question store
    last,               \* the most recent operation with its inputs and result
    feed,               \* the forum's questions, newest first
    pc,                 \* where the poll cycle of PostMonitor stands
    newPosts,           \* the new posts the cycle has still to forward
    sending,            \* the sendPostToTeams call awaiting its deliveries
    inflight,           \* webhook requests issued and not yet answered
    chat,               \* the posts delivered to a chat destination, with the time
    cb,                 \* the /callback/teams-message handler in progress
    isRunning,          \* PostMonitor.isRunning
    intervalId,         \* PostMonitor.intervalId, NoId for null
    timers,             \* the interval timers armed in the runtime
    startCall,          \* where the call of PostMonitor.start() stands
    cycles,             \* the calls of PostMonitor.checkForNewPosts in progress
    process,            \* the process: up, shutting down after a signal, exited
    hist,               \* what has happened so far (history only)
    forumAnswers,       \* the number of answers the forum holds for each question
    answerCheck,        \* the call of PostMonitor.checkForAnswers in progress
    newPostReplyWebhook,\* config.teams.newPostReplyWebhook is set
    forumComments       \* the comments of one question of the forum, as listed

cycleVars == <<feed, pc, newPosts, sending, inflight, chat, cb>>

lifeVars == <<isRunning, intervalId, timers, startCall, cycles, process, hist,
              forumAnswers, answerCheck, newPostReplyWebhook,
              forumComments>>

lifeVarsButHist == <<isRunning, intervalId, timers, startCall, cycles, process,
                     forumAnswers, answerCheck, newPostReplyWebhook,
              forumComments>>

vars == <<now, lastCheckedPostId, sentQuestions, trackedQuestions, last,
          feed, pc, newPosts, sending, inflight, chat, cb,
          isRunning, intervalId, timers, startCall, cycles, process, hist,
          forumAnswers, answerCheck, newPostReplyWebhook,
              forumComments>>

(***************************************************************************)
(* Bounds of the model.                                                    *)
(***************************************************************************)
MaxPostId == 4      \* post ids of the listing pages
MaxPageLen == 3     \* posts on one fetched page
MaxTicks == 7       \* the clock stops after MaxTicks ticks of TickMs
MaxBodyLen == 2     \* characters of a candidate body
MaxFreshIds == 1    \* ids recorded beyond the pre-filled store
MaxForumPosts == 3  \* questions the forum ever holds
MaxCycleTicks == 1  \* ticks of the clock while the poll cycle is observed

(***************************************************************************)
(* Values.                                                                 *)
(***************************************************************************)
NoId == 0
NoCall == [op |-> "none"]
NoSend == [post |-> NoId]
NoCallback == [stage |-> "none"]
NoAnswerCheck == [phase |-> "idle"]
NoHistory == [stopReturned |-> FALSE, cyclesStarted |-> 0, immediateCycles |-> 0,
              immediateDone |-> FALSE, timerCycles |-> 0, armedAt |-> 0,
              startedAfterStop |-> FALSE, stoppedDuringStart |-> FALSE,
              prevPoll |-> NoCall, cyclesCompleted |-> 0, sweeps |-> 0,
              answered |-> {}, fromCallback |-> {}, polls |-> <<>>,
              reported |-> {}, twice |-> {}, established |-> NoId,
              polledUpTo |-> 0, sincePoll |-> 0, burst |-> FALSE,
              startsIssued |-> 0, stopsIssued |-> 0, timersArmed |-> 0,
              attempted |-> {}, reattempted |-> {}, undelivered |-> {},
              owed |-> {}, recovered |-> {}, lostAnswers |-> {},
              lostWhileTracked |-> {}, firstIds |-> {}]
EmptyMap == [q \in {} |-> q]

\* The clock advances in steps of ten minutes, so that an age of exactly ten
\* minutes and of exactly one hour both occur.
TickMs == 10 * 60 * 1000
MaxClock == MaxTicks * TickMs

Chars == {"a", "b"}

RECURSIVE StringsOver(_, _)
StringsOver(alphabet, n) ==
    IF n = 0 THEN {<<>>}
    ELSE LET shorter == StringsOver(alphabet, n - 1)
         IN  shorter \cup {Append(s, c) : <<s, c>> \in shorter \X alphabet}

StringsUpTo(n) == StringsOver(Chars, n)

\* The titles of the forum's posts: post i carries Titles[((i-1) % 3) + 1].
Titles == << <<"a">>, <<"a", "b">>, <<"b", "b">> >>
TitleOfPost(i) == Titles[((i - 1) % Len(Titles)) + 1]

\* An AnswerPost, reduced to the fields the monitor reads.
Post(i, tags) == [id |-> i, title |-> TitleOfPost(i), tags |-> tags]

PostIds == 1..MaxPostId

\* Injective sequences over S of length at most n: a listing never repeats an id.
RECURSIVE DistinctSeqs(_, _)
DistinctSeqs(S, n) ==
    IF n = 0 THEN {<<>>}
    ELSE LET shorter == DistinctSeqs(S, n - 1)
         IN  shorter \cup
             {Append(s, x) : <<s, x>> \in
                 {<<t, y>> \in shorter \X S : \A i \in 1..Len(t) : t[i] # y}}

\* The pages of the newest-first listing.
Pages ==
    {[i \in 1..Len(ids) |-> Post(ids[i], {})] :
        ids \in DistinctSeqs(PostIds, MaxPageLen)}

Ids(posts) == [i \in 1..Len(posts) |-> posts[i].id]

(***************************************************************************)
(* AnswersApiService.checkForNewPosts                                      *)
(***************************************************************************)
\* A scan that skips the baseline and goes on (continue for break).
ScanNewPostsNoBreak(recentPosts, baseline) ==
    SelectSeq(recentPosts, LAMBDA p : p.id # baseline)

\* The loop of lines 280-286: collect posts until the baseline is met.
RECURSIVE ScanNewPosts(_, _)
ScanNewPosts(recentPosts, baseline) ==
    IF recentPosts = <<>> THEN <<>>
    ELSE IF Head(recentPosts).id = baseline THEN <<>>
    ELSE <<Head(recentPosts)>> \o ScanNewPosts(Tail(recentPosts), baseline)

\* recentPosts[0]?.id || null
FirstIdOrNull(recentPosts) ==
    IF recentPosts = <<>> THEN NoId ELSE Head(recentPosts).id

\* A baseline that follows the page's first post on every call.
BaselineAlwaysFirst(baseline, recentPosts) == FirstIdOrNull(recentPosts)

\* A baseline that stays where the first call put it.
BaselineNeverAdvances(baseline, recentPosts) ==
    IF baseline = NoId THEN FirstIdOrNull(recentPosts) ELSE baseline

\* A baseline that an empty page unsets.
BaselineUnsetByEmptyPage(baseline, recentPosts) ==
    IF baseline = NoId \/ recentPosts = <<>> THEN FirstIdOrNull(recentPosts)
    ELSE IF ScanNewPosts(recentPosts, baseline) # <<>> THEN recentPosts[1].id
    ELSE baseline

\* The baseline after a call that fetched recentPosts.
BaselineAfter(baseline, recentPosts) ==
    IF baseline = NoId THEN FirstIdOrNull(recentPosts)
    ELSE IF ScanNewPosts(recentPosts, baseline) # <<>> THEN recentPosts[1].id
    ELSE baseline

\* A first call that reports the page it sees.
NewPostsNoColdStart(baseline, recentPosts) ==
    ScanNewPosts(recentPosts, baseline)

\* A call that reports nothing when the baseline is not on the page.
NewPostsOnlyIfFound(baseline, recentPosts) ==
    IF baseline = NoId \/ \A i \in 1..Len(recentPosts) : recentPosts[i].id # baseline
    THEN <<>>
    ELSE ScanNewPosts(recentPosts, baseline)

\* The posts a call that fetched recentPosts returns.
NewPostsReturned(baseline, recentPosts) ==
    IF baseline = NoId THEN <<>>
    ELSE ScanNewPosts(recentPosts, baseline)

\* One call of checkForNewPosts: the fetch succeeds with some page, or throws
\* and the catch of lines 294-297 returns [].
ApiCheckForNewPosts(fetched, recentPosts) ==
    /\ lastCheckedPostId' =
          IF fetched THEN BaselineAfter(lastCheckedPostId, recentPosts)
          ELSE lastCheckedPostId
    /\ last' = [op |-> "checkForNewPosts",
                fetched |-> fetched,
                page |-> IF fetched THEN recentPosts ELSE <<>>,
                pre |-> lastCheckedPostId,
                ret |-> IF fetched
                        THEN NewPostsReturned(lastCheckedPostId, recentPosts)
                        ELSE <<>>]

\* The poll cycle and the callback handler at rest: the specifications of the
\* single components leave them there.
CycleAtRest ==
    /\ feed = <<>>
    /\ pc = "idle"
    /\ newPosts = <<>>
    /\ sending = NoSend
    /\ inflight = {}
    /\ chat = {}
    /\ cb = NoCallback
    /\ isRunning = FALSE
    /\ intervalId = NoId
    /\ timers = {}
    /\ startCall = [pc |-> "notCalled", probe |-> "none"]
    /\ cycles = {}
    /\ process = "up"
    /\ hist = NoHistory
    /\ forumAnswers = EmptyMap
    /\ answerCheck = NoAnswerCheck
    /\ newPostReplyWebhook = TRUE
    /\ forumComments = <<>>

(***************************************************************************)
(* Specification of the new-post detector alone: every call receives an    *)
(* arbitrary page of the remote listing.                                   *)
(***************************************************************************)
PostsInit ==
    /\ CycleAtRest
    /\ now = 0
    /\ lastCheckedPostId = NoId
    /\ sentQuestions = <<>>
    /\ trackedQuestions = EmptyMap
    /\ last = NoCall

\* hist.firstIds: the ids of the first posts of the pages fetched so far
PostsPoll ==
    /\ \E recentPosts \in Pages :
         /\ ApiCheckForNewPosts(TRUE, recentPosts)
         /\ hist' = [hist EXCEPT !.firstIds =
                        IF recentPosts = <<>> THEN @
                        ELSE @ \cup {recentPosts[1].id}]
    /\ UNCHANGED <<now, sentQuestions, trackedQuestions>>
    /\ UNCHANGED cycleVars
    /\ UNCHANGED lifeVarsButHist

PostsPollFails ==
    /\ ApiCheckForNewPosts(FALSE, <<>>)
    /\ UNCHANGED <<now, sentQuestions, trackedQuestions>>
    /\ UNCHANGED cycleVars
    /\ UNCHANGED lifeVars

PostsNext == PostsPoll \/ PostsPollFails

SpecPosts == PostsInit /\ [][PostsNext]_vars

(***************************************************************************)
(* SentQuestionsTracker.  The Map is the sequence of its entries in         *)
(* insertion order: set() of a stored key keeps the key's place, set() of   *)
(* a new key appends.  teamsMessageId is never passed by a caller and is    *)
(* left out.                                                                *)
(***************************************************************************)
maxStoredQuestions == 100
DuplicateWindowMs == 10 * 60 * 1000
MaxAgeMs == 60 * 60 * 1000

\* String.prototype.includes
Includes(content, title) ==
    \E i \in 0..(Len(content) - Len(title)) :
        SubSeq(content, i + 1, i + Len(title)) = title

HasKey(store, id) == \E i \in 1..Len(store) : store[i].id = id

\* Map.prototype.set
MapSet(store, entry) ==
    IF HasKey(store, entry.id)
    THEN [i \in 1..Len(store) |->
             IF store[i].id = entry.id THEN entry ELSE store[i]]
    ELSE Append(store, entry)

\* Map.prototype.delete
MapDelete(store, id) == SelectSeq(store, LAMBDA e : e.id # id)

\* The last entry in insertion order.
NewestInserted(store) == store[Len(store)]

\* A sort that puts the last inserted of the entries of equal sentAt first.
OldestEntryLastOfTies(store) ==
    store[CHOOSE i \in 1..Len(store) :
            /\ \A j \in 1..Len(store) : store[i].sentAt <= store[j].sentAt
            /\ \A j \in (i + 1)..Len(store) : store[j].sentAt > store[i].sentAt]

\* entries().sort(by sentAt)[0]: the sort is stable, so among the entries of
\* the smallest sentAt the first in insertion order comes first.
OldestEntry(store) ==
    store[CHOOSE i \in 1..Len(store) :
            /\ \A j \in 1..Len(store) : store[i].sentAt <= store[j].sentAt
            /\ \A j \in 1..(i - 1) : store[j].sentAt > store[i].sentAt]

\* A cap that is checked before the insertion instead of after it.
TrackSentQuestionNoEvict(store, post, t) ==
    MapSet(store, [id |-> post.id, title |-> post.title, sentAt |-> t])

\* An eviction that removes the entry inserted last.
TrackSentQuestionEvictNewest(store, post, t) ==
    LET inserted == MapSet(store, [id |-> post.id, title |-> post.title, sentAt |-> t])
    IN  IF Len(inserted) > maxStoredQuestions
        THEN MapDelete(inserted, NewestInserted(inserted).id)
        ELSE inserted

\* trackSentQuestion(post) at time t
TrackSentQuestion(store, post, t) ==
    LET inserted == MapSet(store, [id |-> post.id, title |-> post.title, sentAt |-> t])
    IN  IF Len(inserted) > maxStoredQuestions
        THEN MapDelete(inserted, OldestEntry(inserted).id)
        ELSE inserted

\* A lookup that compares the candidate's title with the stored one.
IsDuplicateByTitle(store, messageTitle, messageContent, t) ==
    \E i \in 1..Len(store) :
        /\ ~(t - store[i].sentAt > DuplicateWindowMs)
        /\ store[i].title = messageTitle

\* A lookup without the ten-minute window.
IsDuplicateAnyAge(store, messageTitle, messageContent, t) ==
    \E i \in 1..Len(store) : Includes(messageContent, store[i].title)

\* The entries the loop of lines 83-100 does not skip.
RecentEntries(store, t) ==
    SelectSeq(store, LAMBDA e : ~(t - e.sentAt > DuplicateWindowMs))

\* isDuplicateMessage(messageTitle, messageContent) at time t: the loop
\* returns true at the first recent entry whose title the content includes.
IsDuplicateMessage(store, messageTitle, messageContent, t) ==
    IF Len(store) = 0 THEN FALSE
    ELSE LET recent == RecentEntries(store, t)
         IN  \E i \in 1..Len(recent) : Includes(messageContent, recent[i].title)

\* getStats() at time t
GetStats(store, t) ==
    [totalTracked |-> Len(store),
     recentSent |->
        Len(SelectSeq(store, LAMBDA e : t - e.sentAt < DuplicateWindowMs))]

\* A sweep with the ten-minute window of the lookup.
ClearOldQuestionsShortWindow(store, t) ==
    SelectSeq(store, LAMBDA e : ~(e.sentAt < t - DuplicateWindowMs))

\* clearOldQuestions() at time t
ClearOldQuestions(store, t) ==
    SelectSeq(store, LAMBDA e : ~(e.sentAt < t - MaxAgeMs))

(***************************************************************************)
(* Specification of the tracker alone.  The store starts empty, or at the   *)
(* cap: PrefillLen posts recorded at time 0, all but the k-th recorded      *)
(* again one tick later (k = 0: none recorded again).                       *)
(***************************************************************************)
PrefillLen == maxStoredQuestions

OldestPositions == {0, PrefillLen \div 2, PrefillLen}

Prefilled(k) ==
    [i \in 1..PrefillLen |->
        [id |-> i, title |-> TitleOfPost(i),
         sentAt |-> IF k = 0 \/ i = k THEN 0 ELSE TickMs]]

\* The posts the tracker is asked to record, each any number of times.
TrackIds == (PrefillLen + 1)..(PrefillLen + MaxFreshIds)

Bodies == StringsUpTo(MaxBodyLen)
CandidateTitles == {<<"a">>, <<"b">>}

TrackerInit ==
    /\ CycleAtRest
    /\ lastCheckedPostId = NoId
    /\ trackedQuestions = EmptyMap
    /\ last = NoCall
    /\ \/ sentQuestions = <<>> /\ now = 0
       \/ \E k \in OldestPositions :
            /\ sentQuestions = Prefilled(k)
            /\ now = IF k = 0 THEN 0 ELSE TickMs

TrackerTick ==
    /\ now + TickMs <= MaxClock
    /\ now' = now + TickMs
    /\ last' = [op |-> "tick"]
    /\ UNCHANGED <<lastCheckedPostId, sentQuestions, trackedQuestions>>
    /\ UNCHANGED cycleVars
    /\ UNCHANGED lifeVars

TrackerRecordSent ==
    /\ \E id \in TrackIds :
         /\ sentQuestions' = TrackSentQuestion(sentQuestions, Post(id, {}), now)
         /\ last' = [op |-> "trackSentQuestion", post |-> Post(id, {}),
                     pre |-> sentQuestions, at |-> now]
    /\ UNCHANGED <<now, lastCheckedPostId, trackedQuestions>>
    /\ UNCHANGED cycleVars
    /\ UNCHANGED lifeVars

TrackerIsDuplicate ==
    /\ \E messageTitle \in CandidateTitles, messageContent \in Bodies :
         last' = [op |-> "isDuplicateMessage",
                  messageContent |-> messageContent,
                  at |-> now,
                  ret |-> IsDuplicateMessage(sentQuestions, messageTitle,
                                             messageContent, now)]
    /\ UNCHANGED <<now, lastCheckedPostId, sentQuestions, trackedQuestions>>
    /\ UNCHANGED cycleVars
    /\ UNCHANGED lifeVars

TrackerGetStats ==
    /\ last' = [op |-> "getStats", at |-> now, ret |-> GetStats(sentQuestions, now)]
    /\ UNCHANGED <<now, lastCheckedPostId, sentQuestions, trackedQuestions>>
    /\ UNCHANGED cycleVars
    /\ UNCHANGED lifeVars

TrackerSweep ==
    /\ sentQuestions' = ClearOldQuestions(sentQuestions, now)
    /\ last' = [op |-> "clearOldQuestions", pre |-> sentQuestions, at |-> now]
    /\ UNCHANGED <<now, lastCheckedPostId, trackedQuestions>>
    /\ UNCHANGED cycleVars
    /\ UNCHANGED lifeVars

TrackerNext ==
    \/ TrackerTick
    \/ TrackerRecordSent
    \/ TrackerIsDuplicate
    \/ TrackerGetStats
    \/ TrackerSweep

SpecTracker == TrackerInit /\ [][TrackerNext]_vars

(***************************************************************************)
(* AnswerTracker: for each tracked question its title, the set of answer    *)
(* ids of the latest fetch and the time of that fetch.                      *)
(***************************************************************************)
QuestionMaxAgeMs == 24 * 60 * 60 * 1000

SeqToSet(ids) == {ids[i] : i \in 1..Len(ids)}

IsTracked(tracked, questionId) == questionId \in DOMAIN tracked

\* An update that reports the answers of a question it sees for the first time.
NewAnswerIdsNoColdStart(tracked, questionId, answerIds) ==
    IF IsTracked(tracked, questionId)
    THEN SelectSeq(answerIds, LAMBDA a : a \notin tracked[questionId].answerIds)
    ELSE answerIds

\* An update that reports every given id of a tracked question.
NewAnswerIdsAllGiven(tracked, questionId, answerIds) ==
    IF IsTracked(tracked, questionId) THEN answerIds ELSE <<>>

\* The ids updateQuestionAnswers returns: none for a question not tracked yet,
\* else the given ids that are not stored, in the order given.
NewAnswerIds(tracked, questionId, answerIds) ==
    IF IsTracked(tracked, questionId)
    THEN SelectSeq(answerIds, LAMBDA a : a \notin tracked[questionId].answerIds)
    ELSE <<>>

\* An update that stores only the ids it reports.
UpdateStoresDelta(tracked, questionId, questionTitle, answerIds, t) ==
    [q \in DOMAIN tracked \cup {questionId} |->
        IF q = questionId
        THEN [questionTitle |-> questionTitle,
              answerIds |-> IF IsTracked(tracked, questionId)
                            THEN SeqToSet(NewAnswerIds(tracked, questionId, answerIds))
                            ELSE SeqToSet(answerIds),
              lastCheckedAt |-> t]
        ELSE tracked[q]]

\* An update that adds the given ids to the ids stored before.
UpdateStoresUnion(tracked, questionId, questionTitle, answerIds, t) ==
    [q \in DOMAIN tracked \cup {questionId} |->
        IF q = questionId
        THEN [questionTitle |-> questionTitle,
              answerIds |-> SeqToSet(answerIds) \cup
                            (IF IsTracked(tracked, questionId)
                             THEN tracked[questionId].answerIds ELSE {}),
              lastCheckedAt |-> t]
        ELSE tracked[q]]

\* The store after updateQuestionAnswers(questionId, questionTitle, answerIds)
\* at time t: the entry is replaced by the current snapshot.
UpdateQuestionAnswers(tracked, questionId, questionTitle, answerIds, t) ==
    [q \in DOMAIN tracked \cup {questionId} |->
        IF q = questionId
        THEN [questionTitle |-> questionTitle,
              answerIds |-> SeqToSet(answerIds),
              lastCheckedAt |-> t]
        ELSE tracked[q]]

\* A cleanup that also removes the questions checked exactly 24 hours ago.
CleanupOldQuestionsAtBoundary(tracked, t) ==
    [q \in {x \in DOMAIN tracked : t - tracked[x].lastCheckedAt < QuestionMaxAgeMs}
        |-> tracked[q]]

\* cleanupOldQuestions() at time t
CleanupOldQuestions(tracked, t) ==
    [q \in {x \in DOMAIN tracked : ~(t - tracked[x].lastCheckedAt > QuestionMaxAgeMs)}
        |-> tracked[q]]

(***************************************************************************)
(* Specification of the answer tracker alone.  Its clock advances in steps  *)
(* of twelve hours, so that an age of exactly 24 hours occurs.              *)
(***************************************************************************)
MaxQuestionId == 1
MaxAnswerId == 2
MaxAnswerTicks == 3

AnswerTickMs == 12 * 60 * 60 * 1000

QuestionIds == 1..MaxQuestionId
AnswerIdLists == DistinctSeqs(1..MaxAnswerId, MaxAnswerId)

\* The title the forum lists for a question: it is edited as time passes.
QuestionTitleAt(questionId, t) == TitleOfPost(questionId + t \div AnswerTickMs)

AnswersInit ==
    /\ CycleAtRest
    /\ now = 0
    /\ lastCheckedPostId = NoId
    /\ sentQuestions = <<>>
    /\ trackedQuestions = EmptyMap
    /\ last = NoCall

AnswersTick ==
    /\ now + AnswerTickMs <= MaxAnswerTicks * AnswerTickMs
    /\ now' = now + AnswerTickMs
    /\ last' = [op |-> "tick"]
    /\ UNCHANGED <<lastCheckedPostId, sentQuestions, trackedQuestions>>
    /\ UNCHANGED cycleVars
    /\ UNCHANGED lifeVars

AnswersUpdate ==
    /\ \E questionId \in QuestionIds, answerIds \in AnswerIdLists :
         /\ trackedQuestions' =
               UpdateQuestionAnswers(trackedQuestions, questionId,
                                     QuestionTitleAt(questionId, now),
                                     answerIds, now)
         /\ last' = [op |-> "updateQuestionAnswers",
                     questionId |-> questionId,
                     questionTitle |-> QuestionTitleAt(questionId, now),
                     answerIds |-> answerIds,
                     at |-> now,
                     pre |-> trackedQuestions,
                     wasTracked |-> IsTracked(trackedQuestions, questionId),
                     previous |-> IF IsTracked(trackedQuestions, questionId)
                                  THEN trackedQuestions[questionId].answerIds
                                  ELSE {},
                     ret |-> NewAnswerIds(trackedQuestions, questionId, answerIds)]
    /\ UNCHANGED <<now, lastCheckedPostId, sentQuestions>>
    /\ UNCHANGED cycleVars
    /\ UNCHANGED lifeVars

AnswersCleanup ==
    /\ trackedQuestions' = CleanupOldQuestions(trackedQuestions, now)
    /\ last' = [op |-> "cleanupOldQuestions", at |-> now, pre |-> trackedQuestions]
    /\ UNCHANGED <<now, lastCheckedPostId, sentQuestions>>
    /\ UNCHANGED cycleVars
    /\ UNCHANGED lifeVars

AnswersNext == AnswersTick \/ AnswersUpdate \/ AnswersCleanup

SpecAnswers == AnswersInit /\ [][AnswersNext]_vars

(***************************************************************************)
(* TeamsService.sendPostToTeams and its configuration: two channels that    *)
(* take the posts tagged t1, and a default channel for the others.          *)
(***************************************************************************)
FromTeams == "from_teams"

teamsChannels ==
    << [channelName |-> "A", tags |-> {"t1"}],
       [channelName |-> "B", tags |-> {"t1"}] >>

defaultChannel == [channelName |-> "Default", tags |-> {}]

\* config.teams.defaultChannel is undefined
NoChannel == [channelName |-> "undefined", tags |-> {}]

\* A routing that adds the default channel to the matching ones.
FindChannelsDefaultAlways(channels, default, post) ==
    SelectSeq(channels, LAMBDA ch : ch.tags = {} \/ ch.tags \cap post.tags # {})
        \o (IF default # NoChannel THEN <<default>> ELSE <<>>)

\* findChannelsForPost(post) under a configuration: the channels whose tag
\* list is empty or has a tag of the post, else the default channel if any
FindChannels(channels, default, post) ==
    LET matchingChannels ==
            SelectSeq(channels,
                      LAMBDA ch : ch.tags = {} \/ ch.tags \cap post.tags # {})
    IN  IF matchingChannels = <<>> /\ default # NoChannel
        THEN <<default>>
        ELSE matchingChannels

\* findChannelsForPost(post): the names of the channels the post goes to
FindChannelsForPost(post) ==
    LET channels == FindChannels(teamsChannels, defaultChannel, post)
    IN  {channels[i].channelName : i \in 1..Len(channels)}

\* The chat destination shows the post: a later delivery of the same post
\* replaces the time of the earlier one.
Deliver(messages, post, t) ==
    {m \in messages : m.id # post.id}
        \cup {[id |-> post.id, title |-> post.title, at |-> t]}

\* A sendPostToTeams that records the post at each successful request.
AfterSendOkEach(post, pending, channel, store, t) ==
    [sending |-> IF pending = {channel} THEN NoSend
                 ELSE [post |-> post, pending |-> pending \ {channel}],
     store |-> TrackSentQuestion(store, post, t)]

\* sendPostToTeams after the request to `channel` succeeded: Promise.all
\* resolves with the last of them and the post is recorded (lines 155-163).
AfterSendOk(post, pending, channel, store, t) ==
    IF pending = {channel}
    THEN [sending |-> NoSend, store |-> TrackSentQuestion(store, post, t)]
    ELSE [sending |-> [post |-> post, pending |-> pending \ {channel}],
          store |-> store]

(***************************************************************************)
(* Specification of the routing alone: sendPostToTeams is called for one    *)
(* post after the other, each time under some configuration of channels.    *)
(***************************************************************************)
MaxChannels == 2      \* channels of config.teams.channels
MaxRoutedPosts == 1   \* posts handed to sendPostToTeams

RoutingTags == {"t1", "t2"}

ChannelNames == <<"A", "B", "C">>

\* config.teams.channels: up to MaxChannels channels, each with some tags
ChannelConfigs ==
    UNION {{[i \in 1..n |-> [channelName |-> ChannelNames[i], tags |-> f[i]]] :
               f \in [1..n -> SUBSET RoutingTags]} : n \in 0..MaxChannels}

RoutingInit ==
    /\ CycleAtRest
    /\ now = 0
    /\ lastCheckedPostId = NoId
    /\ sentQuestions = <<>>
    /\ trackedQuestions = EmptyMap
    /\ last = NoCall

\* teamsService.ts lines 70-172: one call of sendPostToTeams, from the
\* routing to the answers of the requests, which all succeed (delivered) or
\* not.
RoutingSend ==
    /\ Len(sentQuestions) < MaxRoutedPosts
    /\ \E channels \in ChannelConfigs, default \in {NoChannel, defaultChannel},
          tags \in SUBSET RoutingTags :
         LET post == Post(Len(sentQuestions) + 1, tags)
             destinations == FindChannels(channels, default, post)
         IN  \E delivered \in BOOLEAN :
                /\ delivered => destinations # <<>>
                /\ sentQuestions' =
                      IF delivered
                      THEN TrackSentQuestion(sentQuestions, post, now)
                      ELSE sentQuestions
                /\ last' = [op |-> "sendPostToTeams", channels |-> channels,
                            default |-> default, post |-> post,
                            requests |-> destinations, delivered |-> delivered,
                            pre |-> sentQuestions]
    /\ UNCHANGED <<now, lastCheckedPostId, trackedQuestions>>
    /\ UNCHANGED cycleVars
    /\ UNCHANGED lifeVars

RoutingNext == RoutingSend

SpecRouting == RoutingInit /\ [][RoutingNext]_vars

(***************************************************************************)
(* The /callback/teams-message handler.                                     *)
(***************************************************************************)
TitleLimit == 50

\* messageContent.replace(/<[^>]*>/g, ""): a "<" with a ">" after it is
\* removed up to the first such ">", any other character stays.
RECURSIVE StripTags(_)
StripTags(content) ==
    IF content = <<>> THEN <<>>
    ELSE IF Head(content) = "<" /\ \E j \in 2..Len(content) : content[j] = ">"
    THEN LET close == CHOOSE j \in 2..Len(content) :
                         /\ content[j] = ">"
                         /\ \A k \in 2..(j - 1) : content[k] # ">"
         IN  StripTags(SubSeq(content, close + 1, Len(content)))
    ELSE <<Head(content)>> \o StripTags(Tail(content))

\* The first line, cut to 50 characters and "..." (lines 247-251); the
\* contents of the model hold no line break and no blank.
MessageTitle(strippedContent) ==
    IF Len(strippedContent) > TitleLimit
    THEN SubSeq(strippedContent, 1, TitleLimit) \o <<".", ".", ".">>
    ELSE strippedContent

\* The tags of the question without the from_teams tag.
QuestionTagsUntagged(additionalTag) ==
    IF additionalTag # "" THEN {additionalTag} ELSE {}

\* The tags postTeamsMessageAsQuestion gives the question (answersApi.ts
\* lines 400-415): additionalTag is the request's tag, "" when absent.
QuestionTags(additionalTag) ==
    {FromTeams} \cup (IF additionalTag # "" THEN {additionalTag} ELSE {})

(***************************************************************************)
(* The poll cycle of PostMonitor.checkForNewPosts interleaved with the      *)
(* forum, the chat destinations and the callback handler.  The monitor is   *)
(* running, one cycle and one callback handler are in progress at a time.   *)
(* The state of AnswerTracker is not part of this specification: the        *)
(* answer detection of a cycle reads and writes nothing else of it.         *)
(***************************************************************************)
PageSize == 10
checkIntervalMs == 30000

\* The requests of the chat: the title of post 2 after markup, without a
\* tag, and a message that includes no title of a post, with a tag.
CallbackRequests ==
    {[messageContent |-> <<"<", "b", ">", "a", "b">>, tag |-> ""],
     [messageContent |-> <<"b">>, tag |-> "t1"]}
UserTagSets == {{}, {"t1"}}

FirstN(posts, n) == SubSeq(posts, 1, IF Len(posts) < n THEN Len(posts) ELSE n)

Init ==
    /\ now = 0
    /\ lastCheckedPostId = NoId
    /\ sentQuestions = <<>>
    /\ trackedQuestions = EmptyMap
    /\ last = NoCall
    /\ feed = <<Post(1, {})>>
    /\ pc = "idle"
    /\ newPosts = <<>>
    /\ sending = NoSend
    /\ inflight = {}
    /\ chat = {}
    /\ cb = NoCallback
    /\ isRunning = TRUE
    /\ intervalId = 1
    /\ timers = {1}
    /\ startCall = [pc |-> "returned", probe |-> "ok"]
    /\ cycles = {}
    /\ process = "up"
    /\ hist = NoHistory
    /\ forumAnswers = EmptyMap
    /\ answerCheck = NoAnswerCheck
    /\ newPostReplyWebhook = TRUE
    /\ forumComments = <<>>

\* The monitor is between two awaits, in the loop of monitor.ts lines 79-103
\* or leaving it: the runtime runs this code to its next await before any
\* other handler, timer or response gets its turn.
MonitorRuns == pc = "forward" /\ sending = NoSend

Tick ==
    /\ ~MonitorRuns
    /\ now + TickMs <= MaxCycleTicks * TickMs
    /\ now' = now + TickMs
    /\ last' = NoCall
    /\ UNCHANGED <<lastCheckedPostId, sentQuestions, trackedQuestions>>
    /\ UNCHANGED cycleVars
    /\ UNCHANGED lifeVars

\* A user posts a question on the forum.
ForumUserPosts ==
    /\ ~MonitorRuns
    /\ Len(feed) < MaxForumPosts
    /\ \E tags \in UserTagSets : feed' = <<Post(Len(feed) + 1, tags)>> \o feed
    /\ last' = NoCall
    /\ UNCHANGED <<now, lastCheckedPostId, sentQuestions, trackedQuestions>>
    /\ UNCHANGED <<pc, newPosts, sending, inflight, chat, cb>>
    /\ UNCHANGED lifeVars

\* monitor.ts line 76: the timer fires and the cycle asks for the new posts.
MonitorStartCycle ==
    /\ pc = "idle"
    /\ \E fetched \in BOOLEAN :
         /\ ApiCheckForNewPosts(fetched, FirstN(feed, PageSize))
         /\ newPosts' = IF fetched
                        THEN NewPostsReturned(lastCheckedPostId, FirstN(feed, PageSize))
                        ELSE <<>>
    /\ pc' = "forward"
    /\ UNCHANGED <<now, sentQuestions, trackedQuestions>>
    /\ UNCHANGED <<feed, sending, inflight, chat, cb>>
    /\ UNCHANGED lifeVars

\* monitor.ts lines 79-98 and teamsService.ts lines 71-153: the next new post
\* is skipped (from_teams), or its webhook requests are issued.
\* A monitor that forwards every new post.
HasFromTeamsTagNever(post) == FALSE

\* monitor.ts lines 80-83: post.tags.some(tag => tag.slug_name === "from_teams")
HasFromTeamsTag(post) == FromTeams \in post.tags

MonitorForwardNext ==
    /\ pc = "forward" /\ newPosts # <<>> /\ sending = NoSend
    /\ LET post == Head(newPosts)
           channels == FindChannelsForPost(post)
       IN  /\ newPosts' = Tail(newPosts)
           /\ IF HasFromTeamsTag(post) \/ channels = {}
              THEN UNCHANGED <<sending, inflight>>
              ELSE /\ sending' = [post |-> post, pending |-> channels]
                   /\ inflight' = inflight \cup
                         {[post |-> post, channel |-> ch, phase |-> "sent"] :
                             ch \in channels}
           /\ last' = [op |-> "forward", post |-> post.id,
                       skipped |-> HasFromTeamsTag(post)]
    /\ UNCHANGED <<now, lastCheckedPostId, sentQuestions, trackedQuestions>>
    /\ UNCHANGED <<feed, pc, chat, cb>>
    /\ UNCHANGED lifeVars

\* The chat destination receives a request and shows the post.
ChatReceives ==
    /\ ~MonitorRuns
    /\ \E d \in inflight :
         /\ d.phase = "sent"
         /\ inflight' = (inflight \ {d}) \cup {[d EXCEPT !.phase = "delivered"]}
         /\ chat' = Deliver(chat, d.post, now)
         /\ last' = NoCall
    /\ UNCHANGED <<now, lastCheckedPostId, sentQuestions, trackedQuestions>>
    /\ UNCHANGED <<feed, pc, newPosts, sending, cb>>
    /\ UNCHANGED lifeVars

Awaited(d) ==
    /\ sending # NoSend
    /\ sending.post.id = d.post.id
    /\ d.channel \in sending.pending

\* The answer to a delivered request arrives; with the last one Promise.all
\* resolves and the post is recorded.
ResponseArrives ==
    /\ ~MonitorRuns
    /\ \E d \in inflight :
         /\ d.phase = "delivered"
         /\ inflight' = inflight \ {d}
         /\ IF Awaited(d)
            THEN LET after == AfterSendOk(sending.post, sending.pending,
                                          d.channel, sentQuestions, now)
                 IN  /\ sending' = after.sending
                     /\ sentQuestions' = after.store
            ELSE UNCHANGED <<sending, sentQuestions>>
         /\ last' = IF Awaited(d) /\ sending.pending = {d.channel}
                    THEN [op |-> "response", post |-> d.post.id, completed |-> TRUE]
                    ELSE NoCall
         /\ hist' = IF Awaited(d)
                    THEN [hist EXCEPT !.answered =
                            @ \cup {[post |-> d.post.id, channel |-> d.channel]}]
                    ELSE hist
    /\ UNCHANGED <<now, lastCheckedPostId, trackedQuestions>>
    /\ UNCHANGED <<feed, pc, newPosts, chat, cb>>
    /\ UNCHANGED lifeVarsButHist

\* A monitor in which the error of sendPostToTeams ends the cycle.
AfterSendFailureAborts(remaining) == [pc |-> "idle", newPosts |-> <<>>]

\* monitor.ts lines 96-101: the error of sendPostToTeams is caught and logged
\* inside the loop, which goes on with the posts that remain.
AfterSendFailure(remaining) == [pc |-> "forward", newPosts |-> remaining]

\* A request fails (refused, or no answer within the timeout): Promise.all
\* rejects, sendPostToTeams throws and the monitor goes on with the next post
\* (monitor.ts lines 99-101); the other requests stay in flight.
RequestFails ==
    /\ ~MonitorRuns
    /\ \E d \in inflight :
         /\ inflight' = inflight \ {d}
         /\ IF Awaited(d)
            THEN LET after == AfterSendFailure(newPosts)
                 IN  /\ sending' = NoSend
                     /\ pc' = after.pc
                     /\ newPosts' = after.newPosts
                     /\ last' = [op |-> "sendFailed", post |-> d.post.id,
                                 remaining |-> newPosts]
            ELSE /\ UNCHANGED <<sending, pc, newPosts>>
                 /\ last' = NoCall
    /\ UNCHANGED <<now, lastCheckedPostId, sentQuestions, trackedQuestions>>
    /\ UNCHANGED <<feed, chat, cb>>
    /\ UNCHANGED lifeVars

\* monitor.ts line 106: every new post is dealt with, answer detection begins.
MonitorForwardDone ==
    /\ pc = "forward" /\ newPosts = <<>> /\ sending = NoSend
    /\ pc' = "answers"
    /\ last' = NoCall
    /\ UNCHANGED <<now, lastCheckedPostId, sentQuestions, trackedQuestions>>
    /\ UNCHANGED <<feed, newPosts, sending, inflight, chat, cb>>
    /\ UNCHANGED lifeVars

\* monitor.ts lines 109-112: the counter derived from the wall clock is a
\* multiple of ten
SweepDue(t) ==
    LET cleanupCounter == t \div (checkIntervalMs * 10)
    IN  cleanupCounter % 10 = 0

\* monitor.ts lines 106-114: checkForAnswers (lines 123-213) returns and,
\* with no await in between, the sent tracker is swept when that is due; the
\* cycle is over.
MonitorCheckForAnswers ==
    /\ pc = "answers"
    /\ sentQuestions' = IF SweepDue(now)
                        THEN ClearOldQuestions(sentQuestions, now)
                        ELSE sentQuestions
    /\ pc' = "idle"
    /\ last' = NoCall
    /\ UNCHANGED <<now, lastCheckedPostId, trackedQuestions>>
    /\ UNCHANGED <<feed, newPosts, sending, inflight, chat, cb>>
    /\ UNCHANGED lifeVars

\* The posts shown in chat for at most ten minutes whose title the content
\* includes.
EchoedPosts(strippedContent) ==
    {m.id : m \in {x \in chat : /\ now - x.at <= DuplicateWindowMs
                                /\ Includes(strippedContent, x.title)}}

\* Lines 203-306 of the handler, up to its first await: the content is
\* stripped, a duplicate is answered at once, anything else is posted to the
\* forum as a question.
CallbackArrives ==
    /\ ~MonitorRuns
    /\ cb = NoCallback
    /\ \E request \in CallbackRequests :
         LET messageContent == request.messageContent
             tag == request.tag
             strippedContent == StripTags(messageContent)
             messageTitle == MessageTitle(strippedContent)
             isDuplicate == IsDuplicateMessage(sentQuestions, messageTitle,
                                               strippedContent, now)
         IN  /\ cb' = IF isDuplicate THEN NoCallback
                      ELSE [stage |-> "postQuestion", title |-> messageTitle,
                            tags |-> QuestionTags(tag)]
             /\ last' = [op |-> "teams-message",
                         strippedContent |-> strippedContent,
                         isDuplicate |-> isDuplicate,
                         postQuestion |-> ~isDuplicate,
                         echoOf |-> EchoedPosts(strippedContent)]
    /\ UNCHANGED <<now, lastCheckedPostId, sentQuestions, trackedQuestions>>
    /\ UNCHANGED <<feed, pc, newPosts, sending, inflight, chat>>
    /\ UNCHANGED lifeVars

\* The forum creates the question (lines 297-313).
CallbackQuestionPosted ==
    /\ ~MonitorRuns
    /\ cb.stage = "postQuestion"
    /\ Len(feed) < MaxForumPosts
    /\ feed' = <<[id |-> Len(feed) + 1, title |-> cb.title, tags |-> cb.tags]>>
                  \o feed
    /\ cb' = [stage |-> "postComment"]
    /\ last' = NoCall
    /\ hist' = [hist EXCEPT !.fromCallback = @ \cup {Len(feed) + 1}]
    /\ UNCHANGED <<now, lastCheckedPostId, sentQuestions, trackedQuestions>>
    /\ UNCHANGED <<pc, newPosts, sending, inflight, chat>>
    /\ UNCHANGED lifeVarsButHist

\* The forum refuses the question (lines 367-392).
CallbackQuestionFails ==
    /\ ~MonitorRuns
    /\ cb.stage = "postQuestion"
    /\ cb' = NoCallback
    /\ last' = NoCall
    /\ UNCHANGED <<now, lastCheckedPostId, sentQuestions, trackedQuestions>>
    /\ UNCHANGED <<feed, pc, newPosts, sending, inflight, chat>>
    /\ UNCHANGED lifeVars

\* The message-id comment is posted or fails (lines 316-330).
CallbackCommentDone ==
    /\ ~MonitorRuns
    /\ cb.stage = "postComment"
    /\ cb' = [stage |-> "notify"]
    /\ last' = NoCall
    /\ UNCHANGED <<now, lastCheckedPostId, sentQuestions, trackedQuestions>>
    /\ UNCHANGED <<feed, pc, newPosts, sending, inflight, chat>>
    /\ UNCHANGED lifeVars

\* The notification is sent or fails, the handler answers 200 (lines 333-366).
CallbackNotifyDone ==
    /\ ~MonitorRuns
    /\ cb.stage = "notify"
    /\ cb' = NoCallback
    /\ last' = NoCall
    /\ UNCHANGED <<now, lastCheckedPostId, sentQuestions, trackedQuestions>>
    /\ UNCHANGED <<feed, pc, newPosts, sending, inflight, chat>>
    /\ UNCHANGED lifeVars

Next ==
    \/ Tick
    \/ ForumUserPosts
    \/ MonitorStartCycle
    \/ MonitorForwardNext
    \/ ChatReceives
    \/ ResponseArrives
    \/ RequestFails
    \/ MonitorForwardDone
    \/ MonitorCheckForAnswers
    \/ CallbackArrives
    \/ CallbackQuestionPosted
    \/ CallbackQuestionFails
    \/ CallbackCommentDone
    \/ CallbackNotifyDone

Spec == Init /\ [][Next]_vars

(***************************************************************************)
(* The two callback handlers alone, one request at a time, each followed    *)
(* through its awaits to its response.  cb.calls lists the calls to the     *)
(* forum and to the chat the handler has awaited, with their outcome; the   *)
(* forum's questions are in feed.  The store holds nothing, or the title of *)
(* post 2 recorded just now or outside the ten-minute window.               *)
(***************************************************************************)
CallbackStartMs == 2 * DuplicateWindowMs

CallbackStores ==
    {<<>>,
     TrackSentQuestion(<<>>, Post(2, {}), CallbackStartMs),
     TrackSentQuestion(<<>>, Post(2, {}), 0)}

\* What lines 231-242 make of the item of the request: a text, or a value
\* that is no string (the content field of the parsed item is a number).
TeamsRequests ==
    {[isText |-> TRUE, messageContent |-> r.messageContent, tag |-> r.tag] :
        r \in CallbackRequests}
    \cup {[isText |-> FALSE, messageContent |-> <<>>, tag |-> ""]}

Respond(status, success) == [stage |-> "respond", status |-> status, success |-> success]

\* A handler whose comment failure reaches the outer catch.
TeamsHandlerAfterUncaught(stage, ok) ==
    CASE stage = "postQuestion" ->
            IF ok THEN [stage |-> "postComment"] ELSE Respond(200, TRUE)
      [] stage = "postComment" ->
            IF ok THEN [stage |-> "notify"] ELSE Respond(500, FALSE)
      [] stage = "notify" -> Respond(200, TRUE)

\* A handler that gives up the notification when the comment failed.
TeamsHandlerAfterCommentAborts(stage, ok) ==
    CASE stage = "postQuestion" ->
            IF ok THEN [stage |-> "postComment"] ELSE Respond(200, TRUE)
      [] stage = "postComment" ->
            IF ok THEN [stage |-> "notify"] ELSE Respond(200, TRUE)
      [] stage = "notify" -> Respond(200, TRUE)

\* Where the teams-message handler goes when the call it awaits at `stage`
\* has resolved (ok) or rejected: lines 296-392.
TeamsHandlerAfter(stage, ok) ==
    CASE stage = "postQuestion" ->
            IF ok THEN [stage |-> "postComment"] ELSE Respond(200, TRUE)
      [] stage = "postComment" -> [stage |-> "notify"]
      [] stage = "notify" -> Respond(200, TRUE)

\* Where the power-automate handler goes after the first and the second
\* postComment, which share one try block: lines 434-463.
PowerAutomateAfter(stage, ok) ==
    CASE stage = "idComment" ->
            IF ok THEN [stage |-> "linkComment"] ELSE Respond(200, TRUE)
      [] stage = "linkComment" -> Respond(200, TRUE)

Answered(endpoint, request, isDuplicate, calls, response, store, questions) ==
    [op |-> "answered", endpoint |-> endpoint, request |-> request,
     isDuplicate |-> isDuplicate, calls |-> calls,
     status |-> response.status, success |-> response.success,
     pre |-> store, questions |-> questions]

CallbackInit ==
    /\ CycleAtRest
    /\ now = CallbackStartMs
    /\ lastCheckedPostId = NoId
    /\ sentQuestions \in CallbackStores
    /\ trackedQuestions = EmptyMap
    /\ last = NoCall

callbackRest == <<now, lastCheckedPostId, sentQuestions, trackedQuestions,
                  pc, newPosts, sending, inflight, chat>>

\* Lines 203-306: the request is read; a content that is no string makes
\* replace throw, which the outer catch answers; a duplicate is answered at
\* once; anything else is posted to the forum as a question.
TeamsMessageArrives ==
    /\ cb = NoCallback
    /\ \E request \in TeamsRequests :
         IF ~request.isText
         THEN /\ last' = Answered("teams-message", request, FALSE, <<>>,
                                  Respond(500, FALSE), sentQuestions, feed)
              /\ cb' = cb
         ELSE LET strippedContent == StripTags(request.messageContent)
                  messageTitle == MessageTitle(strippedContent)
                  isDuplicate == IsDuplicateMessage(sentQuestions, messageTitle,
                                                    strippedContent, now)
              IN  IF isDuplicate
                  THEN /\ last' = Answered("teams-message", request, TRUE, <<>>,
                                           Respond(200, TRUE), sentQuestions, feed)
                       /\ cb' = cb
                  ELSE /\ last' = NoCall
                       /\ cb' = [stage |-> "postQuestion",
                                 endpoint |-> "teams-message",
                                 request |-> request, title |-> messageTitle,
                                 tags |-> QuestionTags(request.tag),
                                 calls |-> <<>>, pre |-> sentQuestions,
                                 questions |-> feed]
    /\ UNCHANGED feed
    /\ UNCHANGED callbackRest
    /\ UNCHANGED lifeVars

\* The call the handler awaits resolves or rejects; the forum holds the
\* question when postTeamsMessageAsQuestion resolved; the handler answers
\* when it has no call left.
HandlerStep(after, ok) ==
    LET calls == Append(cb.calls, [step |-> cb.stage, ok |-> ok])
    IN  IF after.stage = "respond"
        THEN /\ cb' = NoCallback
             /\ last' = Answered(cb.endpoint, cb.request, FALSE, calls, after,
                                 cb.pre, cb.questions)
        ELSE /\ cb' = [cb EXCEPT !.stage = after.stage, !.calls = calls]
             /\ last' = NoCall

\* Lines 297-313 and 367-392.
TeamsQuestionDone ==
    /\ cb # NoCallback /\ cb.stage = "postQuestion"
    /\ \E ok \in BOOLEAN :
         /\ ok => Len(feed) < MaxForumPosts
         /\ feed' = IF ok
                    THEN <<[id |-> Len(feed) + 1, title |-> cb.title,
                            tags |-> cb.tags]>> \o feed
                    ELSE feed
         /\ HandlerStep(TeamsHandlerAfter("postQuestion", ok), ok)
    /\ UNCHANGED callbackRest
    /\ UNCHANGED lifeVars

\* Lines 316-330.
TeamsCommentDone ==
    /\ cb # NoCallback /\ cb.stage = "postComment"
    /\ \E ok \in BOOLEAN : HandlerStep(TeamsHandlerAfter("postComment", ok), ok)
    /\ UNCHANGED feed
    /\ UNCHANGED callbackRest
    /\ UNCHANGED lifeVars

\* Lines 333-366.
TeamsNotifyDone ==
    /\ cb # NoCallback /\ cb.stage = "notify"
    /\ \E ok \in BOOLEAN : HandlerStep(TeamsHandlerAfter("notify", ok), ok)
    /\ UNCHANGED feed
    /\ UNCHANGED callbackRest
    /\ UNCHANGED lifeVars

\* Lines 408-433 and 461-469: with a postId the handler posts the message-id
\* comment, without one it answers at once.
PowerAutomateArrives ==
    /\ cb = NoCallback
    /\ \E hasPostId \in BOOLEAN :
         LET request == [hasPostId |-> hasPostId]
         IN  IF hasPostId
             THEN /\ cb' = [stage |-> "idComment", endpoint |-> "power-automate",
                            request |-> request, calls |-> <<>>,
                            pre |-> sentQuestions, questions |-> feed]
                  /\ last' = NoCall
             ELSE /\ cb' = cb
                  /\ last' = Answered("power-automate", request, FALSE, <<>>,
                                      Respond(200, TRUE), sentQuestions, feed)
    /\ UNCHANGED feed
    /\ UNCHANGED callbackRest
    /\ UNCHANGED lifeVars

\* Lines 434-469.
PowerAutomateCommentDone ==
    /\ cb # NoCallback /\ cb.stage \in {"idComment", "linkComment"}
    /\ \E ok \in BOOLEAN : HandlerStep(PowerAutomateAfter(cb.stage, ok), ok)
    /\ UNCHANGED feed
    /\ UNCHANGED callbackRest
    /\ UNCHANGED lifeVars

CallbackNext ==
    \/ TeamsMessageArrives
    \/ TeamsQuestionDone
    \/ TeamsCommentDone
    \/ TeamsNotifyDone
    \/ PowerAutomateArrives
    \/ PowerAutomateCommentDone

SpecCallback == CallbackInit /\ [][CallbackNext]_vars

(***************************************************************************)
(* The life cycle of PostMonitor: the one call of start() that main makes   *)
(* (index.ts line 32), stop() from the signal handlers, the interval timer  *)
(* and the calls of checkForNewPosts it starts.  A cycle is followed        *)
(* through its awaits: detection, forwarding of each new post, answer       *)
(* detection.  The trackers are not part of this specification.             *)
(***************************************************************************)
MaxIntervals == 2   \* intervals of checkIntervalMs that elapse

TimerId == 1

\* A start() that goes on whatever the probe said.
StartAfterProbeUngated(isConnected) ==
    [isRunning |-> TRUE, pc |-> "firstCheck",
     probe |-> IF isConnected THEN "ok" ELSE "failed"]

\* start() after `await testConnection()` (monitor.ts lines 32-41)
StartAfterProbe(isConnected) ==
    IF isConnected
    THEN [isRunning |-> TRUE, pc |-> "firstCheck", probe |-> "ok"]
    ELSE [isRunning |-> isRunning, pc |-> "returned", probe |-> "failed"]

\* A start() that arms the interval timer before the immediate check.
TimersArmedAtOnce(isConnected) ==
    IF isConnected THEN timers \cup {TimerId} ELSE timers

\* The timers armed when start() begins the immediate check (monitor.ts lines
\* 38-41): setInterval is called only after that check has returned.
TimersAfterProbe(isConnected) == timers

\* A call of checkForNewPosts that begins: it awaits the forum's answer.
NewCycle(origin) ==
    [id |-> hist.cyclesStarted + 1, origin |-> origin,
     phase |-> "detect", newPosts |-> <<>>]

RecordCycleStart(h, origin) ==
    [h EXCEPT !.cyclesStarted = @ + 1,
              !.immediateCycles = IF origin = "immediate" THEN @ + 1 ELSE @,
              !.timerCycles = IF origin = "timer" THEN @ + 1 ELSE @,
              !.startedAfterStop = @ \/ h.stopReturned]

\* A cycle that goes to the answers while posts are still to be forwarded.
CycleAnswersAtOnce(c, found) ==
    [c EXCEPT !.newPosts = found, !.phase = "answers"]

\* monitor.ts lines 76-106: with new posts the cycle forwards them one after
\* the other, without any it calls checkForAnswers.
CycleAfterDetect(c, found) ==
    [c EXCEPT !.newPosts = found,
              !.phase = IF found = <<>> THEN "answers" ELSE "forward"]

\* monitor.ts lines 79-102: the post at the head is skipped or its
\* sendPostToTeams call has returned or thrown; then the next one, or
\* checkForAnswers.
CycleAfterForward(c) ==
    [c EXCEPT !.newPosts = Tail(@),
              !.phase = IF Tail(c.newPosts) = <<>> THEN "answers" ELSE "forward"]

MonitorInit ==
    /\ CycleAtRest
    /\ now = 0
    /\ lastCheckedPostId = NoId
    /\ sentQuestions = <<>>
    /\ trackedQuestions = EmptyMap
    /\ last = NoCall

restVars == <<sentQuestions, trackedQuestions, last,
              pc, newPosts, sending, inflight, chat, cb,
              forumAnswers, answerCheck, newPostReplyWebhook,
              forumComments>>

\* index.ts line 32 and monitor.ts lines 23-32: start() is called and awaits
\* the connectivity probe.
StartCalled ==
    /\ process # "exited"
    /\ startCall.pc = "notCalled"
    /\ startCall' = IF isRunning THEN [pc |-> "returned", probe |-> "none"]
                    ELSE [pc |-> "probe", probe |-> "pending"]
    /\ UNCHANGED <<now, lastCheckedPostId, feed, isRunning, intervalId, timers,
                   cycles, process, hist>>
    /\ UNCHANGED restVars

\* monitor.ts lines 32-41: the probe is answered; on success isRunning is set
\* and the immediate check begins.
ProbeDone ==
    /\ process # "exited"
    /\ startCall.pc = "probe"
    /\ \E isConnected \in BOOLEAN :
         LET after == StartAfterProbe(isConnected)
         IN  /\ isRunning' = after.isRunning
             /\ startCall' = [pc |-> after.pc, probe |-> after.probe]
             /\ timers' = TimersAfterProbe(isConnected)
             /\ IF after.pc = "firstCheck"
                THEN /\ cycles' = cycles \cup {NewCycle("immediate")}
                     /\ hist' = RecordCycleStart(hist, "immediate")
                ELSE UNCHANGED <<cycles, hist>>
    /\ UNCHANGED <<now, lastCheckedPostId, feed, intervalId, process>>
    /\ UNCHANGED restVars

\* monitor.ts line 76 and answersApi.ts lines 266-298: the forum answers the
\* cycle's request for the recent posts, or the request fails.
CycleDetect ==
    /\ process # "exited"
    /\ \E c \in cycles, fetched \in BOOLEAN :
         LET page == FirstN(feed, PageSize)
             found == IF fetched
                      THEN Ids(NewPostsReturned(lastCheckedPostId, page))
                      ELSE <<>>
         IN  /\ c.phase = "detect"
             /\ lastCheckedPostId' = IF fetched
                                     THEN BaselineAfter(lastCheckedPostId, page)
                                     ELSE lastCheckedPostId
             /\ cycles' = (cycles \ {c}) \cup {CycleAfterDetect(c, found)}
    /\ UNCHANGED <<now, feed, isRunning, intervalId, timers, startCall,
                   process, hist>>
    /\ UNCHANGED restVars

\* monitor.ts lines 79-102: the cycle is done with its next new post.
CycleForward ==
    /\ process # "exited"
    /\ \E c \in cycles :
         /\ c.phase = "forward"
         /\ cycles' = (cycles \ {c}) \cup {CycleAfterForward(c)}
    /\ UNCHANGED <<now, lastCheckedPostId, feed, isRunning, intervalId, timers,
                   startCall, process, hist>>
    /\ UNCHANGED restVars

\* monitor.ts lines 108-114: the cycle that ends sweeps the sent tracker when
\* the sweep is due at that time
RecordCycleEnd(h, t) ==
    [h EXCEPT !.cyclesCompleted = @ + 1,
              !.sweeps = IF SweepDue(t) THEN @ + 1 ELSE @]

\* monitor.ts lines 106-114: checkForAnswers returns, the sent tracker is
\* swept when that is due, and the cycle ends.  When it is the immediate
\* check, start() goes on and arms the interval timer (lines 44-46).
CycleCompletes ==
    /\ process # "exited"
    /\ \E c \in cycles :
         /\ c.phase = "answers"
         /\ cycles' = cycles \ {c}
         /\ IF c.origin = "immediate"
            THEN /\ intervalId' = TimerId
                 /\ timers' = timers \cup {TimerId}
                 /\ startCall' = [startCall EXCEPT !.pc = "returned"]
                 /\ hist' = [RecordCycleEnd(hist, now) EXCEPT
                                !.immediateDone = TRUE, !.armedAt = now]
            ELSE /\ hist' = RecordCycleEnd(hist, now)
                 /\ UNCHANGED <<intervalId, timers, startCall>>
    /\ sentQuestions' = IF SweepDue(now)
                        THEN ClearOldQuestions(sentQuestions, now)
                        ELSE sentQuestions
    /\ UNCHANGED <<now, lastCheckedPostId, feed, isRunning, process>>
    /\ UNCHANGED <<trackedQuestions, last, pc, newPosts, sending, inflight, chat,
                   cb, forumAnswers, answerCheck, newPostReplyWebhook,
              forumComments>>

\* checkIntervalMs pass; an armed timer fires and its callback calls
\* checkForNewPosts (monitor.ts lines 44-46).
IntervalElapses ==
    /\ process # "exited"
    /\ now + checkIntervalMs <= MaxIntervals * checkIntervalMs
    /\ now' = now + checkIntervalMs
    /\ IF timers # {}
       THEN /\ cycles' = cycles \cup {NewCycle("timer")}
            /\ hist' = RecordCycleStart(hist, "timer")
       ELSE UNCHANGED <<cycles, hist>>
    /\ UNCHANGED <<lastCheckedPostId, feed, isRunning, intervalId, timers,
                   startCall, process>>
    /\ UNCHANGED restVars

\* index.ts lines 13-25 and monitor.ts lines 56-69: a signal arrives, its
\* handler calls stop() and awaits the end of the callback server.
Signal ==
    /\ process # "exited"
    /\ IF isRunning
       THEN /\ timers' = IF intervalId # NoId THEN timers \ {intervalId} ELSE timers
            /\ intervalId' = NoId
            /\ isRunning' = FALSE
       ELSE UNCHANGED <<timers, intervalId, isRunning>>
    /\ process' = "stopping"
    /\ hist' = [hist EXCEPT !.stopReturned = TRUE,
                             !.stoppedDuringStart =
                                 @ \/ startCall.pc \in {"probe", "firstCheck"}]
    /\ UNCHANGED <<now, lastCheckedPostId, feed, startCall, cycles>>
    /\ UNCHANGED restVars

\* index.ts lines 17 and 24: process.exit(0) once the callback server is closed.
ProcessExits ==
    /\ process = "stopping"
    /\ process' = "exited"
    /\ timers' = {}
    /\ cycles' = {}
    /\ UNCHANGED <<now, lastCheckedPostId, feed, isRunning, intervalId,
                   startCall, hist>>
    /\ UNCHANGED restVars

MonitorNext ==
    \/ StartCalled
    \/ ProbeDone
    \/ CycleDetect
    \/ CycleForward
    \/ CycleCompletes
    \/ IntervalElapses
    \/ Signal
    \/ ProcessExits
    \/ ForumUserPosts

SpecMonitor == MonitorInit /\ [][MonitorNext]_vars

(***************************************************************************)
(* Step 1 of the poll cycle with its sends, cycle after cycle, over a feed  *)
(* that only grows: checkForNewPosts, then sendPostToTeams for each post    *)
(* returned, which resolves or throws.  hist keeps the posts a send was     *)
(* attempted for (attempted), those it was attempted for again              *)
(* (reattempted) and those whose send threw (undelivered).  Step 2 and the  *)
(* sweep are those of SpecCycle.                                            *)
(***************************************************************************)
MaxForwardedPosts == 4   \* questions the forum ever holds

\* A loop that tries a post again after a failed send.
NewPostsAfterSendRetry(posts, ok) == IF ok THEN Tail(posts) ELSE posts

\* monitor.ts lines 79-102: the for-of loop goes to the next post, the catch
\* of lines 99-101 only logs
NewPostsAfterSend(posts, ok) == Tail(posts)

ForwardInit ==
    /\ CycleAtRest
    /\ now = 0
    /\ lastCheckedPostId = NoId
    /\ sentQuestions = <<>>
    /\ trackedQuestions = EmptyMap
    /\ last = NoCall

forwardRest == <<now, trackedQuestions, sending, inflight, chat, cb,
                 isRunning, intervalId, timers, startCall, cycles, process,
                 forumAnswers, answerCheck, newPostReplyWebhook, forumComments>>

\* Somebody asks a question on the forum, or the callback handler does.
ForwardFeedGrows ==
    /\ Len(feed) < MaxForwardedPosts
    /\ \E tags \in {{}, {FromTeams}} :
         feed' = <<Post(Len(feed) + 1, tags)>> \o feed
    /\ last' = NoCall
    /\ UNCHANGED <<lastCheckedPostId, sentQuestions, pc, newPosts, hist>>
    /\ UNCHANGED forwardRest

\* monitor.ts line 76 and answersApi.ts lines 266-298: the cycle asks for the
\* new posts.
ForwardPolls ==
    /\ pc = "idle"
    /\ \E fetched \in BOOLEAN :
         /\ ApiCheckForNewPosts(fetched, FirstN(feed, PageSize))
         /\ newPosts' = IF fetched
                        THEN NewPostsReturned(lastCheckedPostId, FirstN(feed, PageSize))
                        ELSE <<>>
    /\ pc' = "forward"
    /\ UNCHANGED <<feed, sentQuestions, hist>>
    /\ UNCHANGED forwardRest

\* monitor.ts lines 79-102 and teamsService.ts lines 71-172: the next post
\* is skipped, or sendPostToTeams is awaited and resolves, the post recorded
\* in the sent tracker, or throws.
ForwardSends ==
    /\ pc = "forward" /\ newPosts # <<>>
    /\ LET post == Head(newPosts)
       IN  IF HasFromTeamsTag(post)
           THEN /\ newPosts' = Tail(newPosts)
                /\ last' = [op |-> "forward", post |-> post.id, skipped |-> TRUE]
                /\ UNCHANGED <<sentQuestions, hist>>
           ELSE \E ok \in BOOLEAN :
                  /\ newPosts' = NewPostsAfterSend(newPosts, ok)
                  /\ sentQuestions' = IF ok
                                      THEN TrackSentQuestion(sentQuestions, post, now)
                                      ELSE sentQuestions
                  /\ hist' = [hist EXCEPT
                                !.attempted = @ \cup {post.id},
                                !.reattempted = @ \cup (hist.attempted \cap {post.id}),
                                !.undelivered = IF ok THEN @ ELSE @ \cup {post.id}]
                  /\ last' = [op |-> "forward", post |-> post.id, skipped |-> FALSE]
    /\ UNCHANGED <<lastCheckedPostId, feed, pc>>
    /\ UNCHANGED forwardRest

\* monitor.ts lines 103-118: the loop is over and the cycle goes on to its
\* end.
ForwardCycleEnds ==
    /\ pc = "forward" /\ newPosts = <<>>
    /\ pc' = "idle"
    /\ last' = NoCall
    /\ UNCHANGED <<lastCheckedPostId, feed, sentQuestions, newPosts, hist>>
    /\ UNCHANGED forwardRest

ForwardNext ==
    \/ ForwardFeedGrows
    \/ ForwardPolls
    \/ ForwardSends
    \/ ForwardCycleEnds

SpecForward == ForwardInit /\ [][ForwardNext]_vars

(***************************************************************************)
(* start() and stop() of PostMonitor called in any order, a call of start() *)
(* possibly while another is in progress.  startCall is here the set of the *)
(* calls of start() in progress, each at its probe or at its immediate      *)
(* check; every setInterval gives a timer of its own.  The cycles the       *)
(* timers start are left out.                                               *)
(***************************************************************************)
MaxStartCalls == 3   \* calls of start()
MaxStopCalls == 2    \* calls of stop()

StartStopInit ==
    /\ now = 0
    /\ lastCheckedPostId = NoId
    /\ sentQuestions = <<>>
    /\ trackedQuestions = EmptyMap
    /\ last = NoCall
    /\ feed = <<>>
    /\ pc = "idle"
    /\ newPosts = <<>>
    /\ sending = NoSend
    /\ inflight = {}
    /\ chat = {}
    /\ cb = NoCallback
    /\ isRunning = FALSE
    /\ intervalId = NoId
    /\ timers = {}
    /\ startCall = {}
    /\ cycles = {}
    /\ process = "up"
    /\ hist = NoHistory
    /\ forumAnswers = EmptyMap
    /\ answerCheck = NoAnswerCheck
    /\ newPostReplyWebhook = TRUE
    /\ forumComments = <<>>

startStopRest == <<now, lastCheckedPostId, sentQuestions, trackedQuestions,
                   feed, pc, newPosts, sending, inflight, chat, cb, cycles,
                   process, forumAnswers, answerCheck, newPostReplyWebhook,
                   forumComments>>

\* monitor.ts lines 23-32: start() returns at once on a running monitor,
\* otherwise it awaits the connectivity probe.
StartIssued ==
    /\ hist.startsIssued < MaxStartCalls
    /\ startCall' = IF isRunning THEN startCall
                    ELSE startCall \cup {[id |-> hist.startsIssued + 1, pc |-> "probe"]}
    /\ hist' = [hist EXCEPT !.startsIssued = @ + 1]
    /\ last' = [op |-> "start", wasRunning |-> isRunning,
                timers |-> timers, checks |-> hist.immediateCycles]
    /\ UNCHANGED <<isRunning, intervalId, timers>>
    /\ UNCHANGED startStopRest

\* monitor.ts lines 32-41: the probe is answered; when the forum is there
\* the call sets isRunning and awaits the immediate check.
StartProbeAnswered ==
    /\ \E c \in startCall, isConnected \in BOOLEAN :
         /\ c.pc = "probe"
         /\ isRunning' = StartAfterProbe(isConnected).isRunning
         /\ startCall' = IF isConnected
                         THEN (startCall \ {c}) \cup {[c EXCEPT !.pc = "firstCheck"]}
                         ELSE startCall \ {c}
         /\ hist' = IF isConnected
                    THEN [hist EXCEPT !.immediateCycles = @ + 1]
                    ELSE hist
    /\ last' = NoCall
    /\ UNCHANGED <<intervalId, timers>>
    /\ UNCHANGED startStopRest

\* monitor.ts lines 41-50: the immediate check has returned, setInterval
\* arms a timer and its id is stored.
StartArmsTimer ==
    /\ \E c \in startCall :
         /\ c.pc = "firstCheck"
         /\ startCall' = startCall \ {c}
    /\ timers' = timers \cup {hist.timersArmed + 1}
    /\ intervalId' = hist.timersArmed + 1
    /\ hist' = [hist EXCEPT !.timersArmed = @ + 1]
    /\ last' = NoCall
    /\ UNCHANGED isRunning
    /\ UNCHANGED startStopRest

\* monitor.ts lines 56-69: stop()
StopIssued ==
    /\ hist.stopsIssued < MaxStopCalls
    /\ IF isRunning
       THEN /\ timers' = IF intervalId # NoId THEN timers \ {intervalId} ELSE timers
            /\ intervalId' = NoId
            /\ isRunning' = FALSE
       ELSE UNCHANGED <<timers, intervalId, isRunning>>
    /\ hist' = [hist EXCEPT !.stopsIssued = @ + 1]
    /\ last' = NoCall
    /\ UNCHANGED startCall
    /\ UNCHANGED startStopRest

StartStopNext ==
    \/ StartIssued
    \/ StartProbeAnswered
    \/ StartArmsTimer
    \/ StopIssued

SpecStartStop == StartStopInit /\ [][StartStopNext]_vars

(***************************************************************************)
(* The timer cycles of a running monitor whose fetches may overlap.  The    *)
(* interval is the configured one (CHECK_INTERVAL_MS, config.ts line 78):   *)
(* the default, or one shorter than the timeout of a request to the forum.  *)
(* A request is answered or fails before its timeout; the responses are     *)
(* handled in any order.  After its fetch a cycle goes on with the posts    *)
(* and the answers for as long as it takes.  hist.polls lists the calls of  *)
(* checkForNewPosts in the order in which their fetch returned.             *)
(***************************************************************************)
MaxOverlapCycles == 3   \* timer cycles that start

requestTimeoutMs == 10000

ConfiguredIntervals == {checkIntervalMs, checkIntervalMs \div 6}

OverlapInit ==
    /\ now = 0
    /\ feed = <<Post(1, {})>>
    /\ lastCheckedPostId \in {NoId, 1}
    /\ sentQuestions = <<>>
    /\ trackedQuestions = EmptyMap
    /\ last = NoCall
    /\ pc = "idle"
    /\ newPosts = <<>>
    /\ sending = NoSend
    /\ inflight = {}
    /\ chat = {}
    /\ cb = NoCallback
    /\ isRunning = TRUE
    /\ intervalId = TimerId
    /\ timers \in {{[id |-> TimerId, every |-> ms]} : ms \in ConfiguredIntervals}
    /\ startCall = [pc |-> "returned", probe |-> "ok"]
    /\ cycles = {}
    /\ process = "up"
    /\ hist = NoHistory
    /\ forumAnswers = EmptyMap
    /\ answerCheck = NoAnswerCheck
    /\ newPostReplyWebhook = TRUE
    /\ forumComments = <<>>

overlapRest == <<sentQuestions, trackedQuestions, pc, newPosts, sending,
                 inflight, chat, cb, isRunning, intervalId, timers, startCall,
                 process, forumAnswers, answerCheck, newPostReplyWebhook,
              forumComments>>

\* Somebody asks a question on the forum.
OverlapForumPosts ==
    /\ Len(feed) < MaxForumPosts
    /\ feed' = <<Post(Len(feed) + 1, {})>> \o feed
    /\ last' = NoCall
    /\ UNCHANGED <<now, lastCheckedPostId, cycles, hist>>
    /\ UNCHANGED overlapRest

AwaitsFetch(c) == c.phase \in {"request", "served"}

\* monitor.ts lines 44-46 and 74-76: the interval has elapsed, the timer
\* starts a call of checkForNewPosts, which asks for the recent posts.  No
\* request is older than its timeout (answersApi.ts line 177).
OverlapTimerFires ==
    /\ hist.cyclesStarted < MaxOverlapCycles
    /\ \E t \in timers :
         /\ \A c \in cycles : AwaitsFetch(c) =>
                                 (now + t.every) - c.startedAt < requestTimeoutMs
         /\ now' = now + t.every
         /\ cycles' = cycles \cup
               {[id |-> hist.cyclesStarted + 1, startedAt |-> now + t.every,
                 phase |-> "request", fetched |-> FALSE, page |-> <<>>,
                 overlaps |-> {c.id : c \in cycles}]}
    /\ hist' = [hist EXCEPT !.cyclesStarted = @ + 1, !.timerCycles = @ + 1]
    /\ last' = NoCall
    /\ UNCHANGED <<lastCheckedPostId, feed>>
    /\ UNCHANGED overlapRest

\* answersApi.ts lines 217-241: the forum serves the page as it is then, or
\* the request fails.
OverlapServed ==
    /\ \E c \in cycles, fetched \in BOOLEAN :
         /\ c.phase = "request"
         /\ cycles' = (cycles \ {c}) \cup
               {[c EXCEPT !.phase = "served", !.fetched = fetched,
                          !.page = IF fetched THEN FirstN(feed, PageSize) ELSE <<>>]}
    /\ last' = NoCall
    /\ UNCHANGED <<now, lastCheckedPostId, feed, hist>>
    /\ UNCHANGED overlapRest

\* answersApi.ts lines 266-298: the await of getRecentPosts returns or
\* throws, and checkForNewPosts runs from there to its return.
OverlapDetect ==
    /\ \E c \in cycles :
         /\ c.phase = "served"
         /\ ApiCheckForNewPosts(c.fetched, c.page)
         /\ cycles' = (cycles \ {c}) \cup {[c EXCEPT !.phase = "running"]}
         /\ hist' = [hist EXCEPT !.polls = Append(@,
                        [id |-> c.id, overlaps |-> c.overlaps,
                         fetched |-> c.fetched, page |-> c.page,
                         pre |-> lastCheckedPostId,
                         ret |-> IF c.fetched
                                 THEN NewPostsReturned(lastCheckedPostId, c.page)
                                 ELSE <<>>])]
    /\ UNCHANGED <<now, feed>>
    /\ UNCHANGED overlapRest

\* monitor.ts lines 77-118: the cycle has dealt with its posts and the
\* answers.
OverlapCycleEnds ==
    /\ \E c \in cycles :
         /\ c.phase = "running"
         /\ cycles' = cycles \ {c}
    /\ last' = NoCall
    /\ UNCHANGED <<now, lastCheckedPostId, feed, hist>>
    /\ UNCHANGED overlapRest

OverlapNext ==
    \/ OverlapForumPosts
    \/ OverlapTimerFires
    \/ OverlapServed
    \/ OverlapDetect
    \/ OverlapCycleEnds

SpecOverlap == OverlapInit /\ [][OverlapNext]_vars

(***************************************************************************)
(* PostMonitor.checkForAnswers: the questions of the forum are listed, the  *)
(* answers of each are fetched and passed to the answer tracker, new        *)
(* answers are reported and replied to chat, then the tracker is cleaned.   *)
(* The forum holds the questions 1..MaxListedQuestions, whose answers       *)
(* arrive one by one.  The tracker itself is the one of spec section 4.2.   *)
(***************************************************************************)
MaxListedQuestions == 2   \* questions the forum lists

QuestionsPageSize == 100
AnswersPageSize == 20

Descending(n) == [i \in 1..n |-> n - i + 1]

\* getRecentPosts(1, 100): the ids of the questions, newest first
ListedQuestions == Ids(FirstN(feed, QuestionsPageSize))

\* getAnswersForQuestion(questionId): the ids of its answers, newest first
AnswersOfQuestion(questionId) ==
    FirstN(Descending(forumAnswers[questionId]), AnswersPageSize)

MaxComments == 1   \* comments of a question the lookup receives

NoMessageId == ""

\* The text of a comment is the sequence of its words; Marker is the phrase
\* "Teams Message ID:".
Marker == "Teams Message ID:"

\* sentQuestionsTracker.ts lines 317-320 and 436-439: the comment
\* `Teams Message ID: ${messageId}`, messageId being the words of the id
MessageIdComment(messageId) == <<Marker>> \o messageId

\* answersApi.ts lines 510-514: the match of /Teams Message ID:\s*([^\s\n]+)/
\* in one comment, the word after the first marker that has one
MatchMessageId(text) ==
    LET hits == {i \in 1..(Len(text) - 1) : text[i] = Marker}
    IN  IF hits = {} THEN NoMessageId
        ELSE text[(CHOOSE i \in hits : \A j \in hits : i <= j) + 1]

\* answersApi.ts lines 509-524: the id of the first comment that has one
RECURSIVE TeamsMessageIdIn(_)
TeamsMessageIdIn(comments) ==
    IF comments = <<>> THEN NoMessageId
    ELSE IF MatchMessageId(Head(comments)) # NoMessageId
         THEN MatchMessageId(Head(comments))
         ELSE TeamsMessageIdIn(Tail(comments))

\* A lookup that returns the id of the last comment that has one.
LookupLastComment(fetched, comments) ==
    IF fetched
    THEN TeamsMessageIdIn([i \in 1..Len(comments) |->
                              comments[Len(comments) + 1 - i]])
    ELSE NoMessageId

\* answersApi.ts lines 502-532: the lookup; a failed request for the comments
\* gives null
GetTeamsMessageIdForQuestion(fetched, comments) ==
    IF fetched THEN TeamsMessageIdIn(comments) ELSE NoMessageId

\* monitor.ts lines 159-161: answers.filter(a => newAnswerIds.includes(a.id))
NewAnswers(answerIds, newAnswerIds) ==
    SelectSeq(answerIds, LAMBDA a : a \in SeqToSet(newAnswerIds))

\* A reply sent whether or not a webhook is configured.
ReplyAlwaysPosted(messageId, questionId, answers) ==
    {[messageId |-> messageId, questionId |-> questionId, answers |-> answers]}

\* teamsService.ts lines 270-280 and 326: the requests posted to the reply
\* webhook, none when no webhook is configured
ReplyToTeamsMessageWithURL(messageId, questionId, answers) ==
    IF newPostReplyWebhook
    THEN {[messageId |-> messageId, questionId |-> questionId, answers |-> answers]}
    ELSE {}

\* The comments a question may have: the message id comments of the callback
\* handlers, a marker with nothing after it, and other comments.
CommentTexts == {MessageIdComment(<<"m1">>), MessageIdComment(<<"m2">>),
                 MessageIdComment(<<>>), <<"thanks">>}

CommentLists == UNION {[1..n -> CommentTexts] : n \in 0..MaxComments}

\* A loop that gives up at the first question whose answers cannot be fetched.
AfterFetchFailureAborts(check, questionId) ==
    [check EXCEPT !.remaining = <<>>, !.failed = @ \cup {questionId}]

\* monitor.ts lines 194-199: the failure is logged, the loop goes on
AfterFetchFailure(check, questionId) ==
    [check EXCEPT !.remaining = Tail(@), !.failed = @ \cup {questionId}]

\* monitor.ts lines 134-149: the ids are passed to updateQuestionAnswers and
\* the new ones, if any, are added to newAnswerDetails
AfterFetch(check, questionId, answerIds, newAnswerIds) ==
    [check EXCEPT
        !.remaining = Tail(@),
        !.calls = @ \cup {[questionId |-> questionId, answerIds |-> answerIds,
                           newAnswerIds |-> newAnswerIds]},
        !.reported = IF newAnswerIds # <<>>
                     THEN @ \cup {[questionId |-> questionId,
                                   newAnswerIds |-> newAnswerIds]}
                     ELSE @,
        !.current = [questionId |-> questionId, answerIds |-> answerIds,
                     newAnswerIds |-> newAnswerIds],
        !.phase = IF newAnswerIds # <<>> THEN "reply" ELSE "loop"]

AnswerCycleInit ==
    /\ now = 0
    /\ lastCheckedPostId = NoId
    /\ sentQuestions = <<>>
    /\ trackedQuestions = EmptyMap
    /\ last = NoCall
    /\ feed = [i \in 1..MaxListedQuestions |->
                 Post(MaxListedQuestions - i + 1, {})]
    /\ pc = "idle"
    /\ newPosts = <<>>
    /\ sending = NoSend
    /\ inflight = {}
    /\ chat = {}
    /\ cb = NoCallback
    /\ isRunning = TRUE
    /\ intervalId = TimerId
    /\ timers = {TimerId}
    /\ startCall = [pc |-> "returned", probe |-> "ok"]
    /\ cycles = {}
    /\ process = "up"
    /\ hist = NoHistory
    /\ forumAnswers = [q \in 1..MaxListedQuestions |-> 0]
    /\ answerCheck = NoAnswerCheck
    /\ newPostReplyWebhook \in BOOLEAN
    /\ forumComments = <<>>

otherVars == <<now, lastCheckedPostId, sentQuestions, feed, pc, newPosts,
               sending, inflight, chat, cb, isRunning, intervalId, timers,
               startCall, cycles, process, hist, newPostReplyWebhook,
              forumComments>>

\* Somebody answers a question on the forum.
AnswerPosted ==
    /\ \E q \in DOMAIN forumAnswers :
         /\ forumAnswers[q] < MaxAnswerId
         /\ forumAnswers' = [forumAnswers EXCEPT ![q] = @ + 1]
    /\ UNCHANGED <<trackedQuestions, last, answerCheck>>
    /\ UNCHANGED otherVars

\* monitor.ts line 126: the questions are listed; when the request fails the
\* call ends in the outer catch (lines 210-212).
AnswerCheckBegins ==
    /\ answerCheck.phase = "idle"
    /\ \E fetched \in BOOLEAN :
         answerCheck' = IF fetched
                        THEN [phase |-> "loop", listed |-> ListedQuestions,
                              remaining |-> ListedQuestions, failed |-> {},
                              calls |-> {}, reported |-> {},
                              current |-> NoCall, replies |-> {}]
                        ELSE NoAnswerCheck
    /\ last' = NoCall
    /\ UNCHANGED <<trackedQuestions, forumAnswers>>
    /\ UNCHANGED otherVars

\* monitor.ts lines 131-149 and 194-199: the answers of the next question
\* arrive, or the request throws.
AnswerFetchDone ==
    /\ answerCheck.phase = "loop"
    /\ answerCheck.remaining # <<>>
    /\ \E ok \in BOOLEAN :
         LET questionId == Head(answerCheck.remaining)
             answerIds == AnswersOfQuestion(questionId)
             newAnswerIds == NewAnswerIds(trackedQuestions, questionId, answerIds)
         IN  IF ok
             THEN /\ trackedQuestions' =
                        UpdateQuestionAnswers(trackedQuestions, questionId,
                                              TitleOfPost(questionId), answerIds, now)
                  /\ answerCheck' = AfterFetch(answerCheck, questionId,
                                               answerIds, newAnswerIds)
             ELSE /\ answerCheck' = AfterFetchFailure(answerCheck, questionId)
                  /\ UNCHANGED trackedQuestions
    /\ last' = NoCall
    /\ UNCHANGED forumAnswers
    /\ UNCHANGED otherVars

\* monitor.ts lines 152-192: the comments of the question are looked up for
\* a message id; with one, the reply is handed to replyToTeamsMessageWithURL.
\* A failure of the request is caught; the loop goes on in each case.
AnswerReplyDone ==
    /\ answerCheck.phase = "reply"
    /\ \E fetched \in BOOLEAN, comments \in CommentLists :
         LET call == answerCheck.current
             teamsMessageId == GetTeamsMessageIdForQuestion(fetched, comments)
             requests == IF teamsMessageId # NoMessageId
                         THEN ReplyToTeamsMessageWithURL(
                                  teamsMessageId, call.questionId,
                                  NewAnswers(call.answerIds, call.newAnswerIds))
                         ELSE {}
         IN  /\ fetched \/ comments = <<>>
             /\ answerCheck' = [answerCheck EXCEPT !.phase = "loop",
                                                   !.replies = @ \cup requests]
             /\ last' = [op |-> "reply", questionId |-> call.questionId,
                         fetched |-> fetched, comments |-> comments,
                         requests |-> requests]
    /\ UNCHANGED <<trackedQuestions, forumAnswers>>
    /\ UNCHANGED otherVars

\* monitor.ts lines 202-209: the loop is over, the tracker is cleaned.
AnswerCheckEnds ==
    /\ answerCheck.phase = "loop"
    /\ answerCheck.remaining = <<>>
    /\ trackedQuestions' = CleanupOldQuestions(trackedQuestions, now)
    /\ answerCheck' = NoAnswerCheck
    /\ last' = NoCall
    /\ UNCHANGED forumAnswers
    /\ UNCHANGED otherVars

AnswerCycleNext ==
    \/ AnswerPosted
    \/ AnswerCheckBegins
    \/ AnswerFetchDone
    \/ AnswerReplyDone
    \/ AnswerCheckEnds

SpecAnswerCycle == AnswerCycleInit /\ [][AnswerCycleNext]_vars

(***************************************************************************)
(* One poll cycle after the other, step by step: checkForNewPosts (step     *)
(* 1), the forwarding of the new posts, checkForAnswers (step 2) and the    *)
(* sweep.  Questions and their answers arrive on the forum one by one.      *)
(* The sends of the forwarding are those of Spec, the loop of step 2 is     *)
(* taken apart in SpecAnswerCycle.                                          *)
(***************************************************************************)
\* A checkForNewPosts whose failure reaches the catch of the cycle.
PcAfterPollThrows(fetched) == IF fetched THEN "forward" ELSE "idle"

\* answersApi.ts lines 294-297 and monitor.ts lines 76-78: checkForNewPosts
\* returns in each case, and the cycle goes on with what it returned
PcAfterPoll(fetched) == "forward"

\* monitor.ts lines 131-200: the tracker after the loop over the questions,
\* where the fetch of the answers failed for the questions of failed
RECURSIVE TrackedAfterLoop(_, _, _, _)
TrackedAfterLoop(tracked, questions, failed, t) ==
    IF questions = <<>> THEN tracked
    ELSE LET questionId == Head(questions)
         IN  TrackedAfterLoop(
                 IF questionId \in failed THEN tracked
                 ELSE UpdateQuestionAnswers(tracked, questionId,
                                            TitleOfPost(questionId),
                                            AnswersOfQuestion(questionId), t),
                 Tail(questions), failed, t)

CycleInit ==
    /\ CycleAtRest
    /\ now = 0
    /\ lastCheckedPostId = NoId
    /\ sentQuestions = <<>>
    /\ trackedQuestions = EmptyMap
    /\ last = NoCall

stepVars == <<now, sending, inflight, chat, cb, isRunning, intervalId, timers,
              startCall, cycles, process, answerCheck, newPostReplyWebhook,
              forumComments>>

\* Somebody asks a question on the forum.
QuestionPosted ==
    /\ Len(feed) < MaxListedQuestions
    /\ LET questionId == Len(feed) + 1
       IN  /\ feed' = <<Post(questionId, {})>> \o feed
           /\ forumAnswers' = [q \in DOMAIN forumAnswers \cup {questionId} |->
                                 IF q = questionId THEN 0 ELSE forumAnswers[q]]
    /\ UNCHANGED <<lastCheckedPostId, sentQuestions, trackedQuestions, last, pc,
                   newPosts, hist>>
    /\ UNCHANGED stepVars

\* monitor.ts line 76: step 1 of the cycle, the request of checkForNewPosts
\* is answered or fails.
CyclePolls ==
    /\ pc = "idle"
    /\ \E fetched \in BOOLEAN :
         /\ ApiCheckForNewPosts(fetched, FirstN(feed, PageSize))
         /\ newPosts' = IF fetched
                        THEN NewPostsReturned(lastCheckedPostId, FirstN(feed, PageSize))
                        ELSE <<>>
         /\ pc' = PcAfterPoll(fetched)
    /\ hist' = [hist EXCEPT !.prevPoll = IF last.op = "checkForAnswers"
                                         THEN last.poll ELSE NoCall]
    /\ UNCHANGED <<sentQuestions, trackedQuestions, feed, forumAnswers>>
    /\ UNCHANGED stepVars

\* monitor.ts lines 78-103: the cycle is done with the new posts, each of
\* them skipped, sent or failed.
CycleForwards ==
    /\ pc = "forward"
    /\ newPosts' = <<>>
    /\ pc' = "answers"
    /\ UNCHANGED <<lastCheckedPostId, sentQuestions, trackedQuestions, last, feed,
                   hist, forumAnswers>>
    /\ UNCHANGED stepVars

\* monitor.ts lines 106 and 123-213: step 2 of the cycle.  The questions are
\* listed and the loop and the cleanup run, or the listing fails and the call
\* ends in its catch (lines 210-212).
CycleChecksAnswers ==
    /\ pc = "answers"
    /\ \E fetched \in BOOLEAN, failed \in SUBSET SeqToSet(ListedQuestions) :
         /\ fetched \/ failed = {}
         /\ trackedQuestions' =
               IF fetched
               THEN CleanupOldQuestions(
                        TrackedAfterLoop(trackedQuestions, ListedQuestions,
                                         failed, now), now)
               ELSE trackedQuestions
         /\ last' = [op |-> "checkForAnswers", listed |-> fetched,
                     pre |-> trackedQuestions, poll |-> last]
    /\ pc' = "cleanup"
    /\ UNCHANGED <<lastCheckedPostId, sentQuestions, feed, newPosts, hist,
                   forumAnswers>>
    /\ UNCHANGED stepVars

\* monitor.ts lines 108-114: the sweep of the sent tracker, when it is due;
\* the cycle is over.
CycleEnds ==
    /\ pc = "cleanup"
    /\ sentQuestions' = IF SweepDue(now)
                        THEN ClearOldQuestions(sentQuestions, now)
                        ELSE sentQuestions
    /\ pc' = "idle"
    /\ UNCHANGED <<lastCheckedPostId, trackedQuestions, last, feed, newPosts,
                   hist, forumAnswers>>
    /\ UNCHANGED stepVars

CycleNext ==
    \/ QuestionPosted
    \/ AnswerPosted
    \/ CyclePolls
    \/ CycleForwards
    \/ CycleChecksAnswers
    \/ CycleEnds

SpecCycle == CycleInit /\ [][CycleNext]_vars

(***************************************************************************)
(* Properties of the poll cycle interleaved with the callback handler,      *)
(* checked under Spec.                                                      *)
(***************************************************************************)
HandledCallback == last.op = "teams-message"

\* C1: a callback handled within ten minutes of the delivery of a post to a
\* chat destination, whose stripped body contains the title of that post,
\* never results in a postQuestion write to the forum, whatever the
\* interleaving of the deliveries, of recordSent and of the duplicate check.
C1_LoopBreaker ==
    (HandledCallback /\ last.echoOf # {}) => ~last.postQuestion

\* the post of the forum with the given id: ids are given in the order of
\* posting and the feed lists the newest first
PostOfId(id) == feed[Len(feed) - id + 1]

C21_ForwardingIsolation ==
    /\ last.op = "sendFailed" =>
          /\ pc = "forward"
          /\ sending = NoSend
          /\ newPosts = last.remaining
          /\ \A i \in 1..Len(newPosts) : newPosts[i].id # last.post
    /\ pc = "answers" => (newPosts = <<>> /\ sending = NoSend)

\* forwarding a post failed while another new post of the same cycle waits
C21_Witness ==
    /\ last.op = "sendFailed"
    /\ newPosts # <<>>
    /\ pc = "forward"


\* the entry of the sent store for a post, NoSend when it has none
SentEntry(store, id) ==
    IF HasKey(store, id)
    THEN store[CHOOSE i \in 1..Len(store) : store[i].id = id]
    ELSE NoSend

\* C27. A post has an entry in the sent store only when every request of
\* its sendPostToTeams call has been answered while the call awaited it; the
\* entry is there, with the time of that step, as soon as the last of them
\* is answered.  When an awaited request fails, the call ends without an
\* entry for the post and the monitor, which catches the error, goes on with
\* the posts that remain.
C27_RecordedWhenForwarded ==
    /\ \A i \in 1..Len(sentQuestions) :
          LET id == sentQuestions[i].id
          IN  /\ FindChannelsForPost(PostOfId(id)) # {}
              /\ \A ch \in FindChannelsForPost(PostOfId(id)) :
                    [post |-> id, channel |-> ch] \in hist.answered
    /\ last.op = "response" =>
          /\ SentEntry(sentQuestions, last.post) # NoSend
          /\ SentEntry(sentQuestions, last.post).sentAt = now
          /\ sending = NoSend
    /\ last.op = "sendFailed" =>
          /\ SentEntry(sentQuestions, last.post) = NoSend
          /\ sending = NoSend
          /\ pc = "forward"

\* a post that went to two channels was recorded when the second answered,
\* after the send of an earlier post had failed and left no entry
C27_Witness ==
    /\ last.op = "response"
    /\ PostOfId(last.post).tags = {"t1"}
    /\ SentEntry(sentQuestions, last.post) # NoSend
    /\ \E id \in 1..MaxForumPosts :
          /\ id < last.post
          /\ id <= Len(feed)
          /\ FromTeams \notin PostOfId(id).tags
          /\ SentEntry(sentQuestions, id) = NoSend

\* the forum's questions the callback handler created
CallbackCreated == {PostOfId(id) : id \in hist.fromCallback}

\* C28. Callback-created questions cannot re-enter the loop: every question
\* the teams-message handler created carries the from_teams tag, with or
\* without one more tag; no cycle sends such a question to chat (it is
\* skipped when it is new, no request is issued for it, it is neither shown
\* in chat nor recorded as sent); so no callback is the echo of one, and the
\* chain ends with it.
C28_NoReentry ==
    /\ \A q \in CallbackCreated :
          /\ FromTeams \in q.tags
          /\ Cardinality(q.tags) <= 2
          /\ (sending # NoSend => sending.post.id # q.id)
          /\ \A d \in inflight : d.post.id # q.id
          /\ \A m \in chat : m.id # q.id
          /\ SentEntry(sentQuestions, q.id) = NoSend
    /\ (last.op = "forward" /\ last.post \in hist.fromCallback) => last.skipped
    /\ last.op = "teams-message" => last.echoOf \cap hist.fromCallback = {}

\* a cycle found a question of the callback handler, which has one more tag,
\* among the new posts and skipped it
C28_Witness ==
    /\ last.op = "forward"
    /\ last.post \in hist.fromCallback
    /\ last.skipped
    /\ Cardinality(PostOfId(last.post).tags) = 2

(***************************************************************************)
(* Properties of the life cycle of PostMonitor, checked under SpecMonitor.  *)
(***************************************************************************)
\* C15. Start gating: the monitor is Running only after the connectivity
\* probe succeeded; when the probe failed, start() has returned with the
\* monitor Stopped, no timer armed, no poll cycle ever started and the
\* baseline unset.
C15_StartGating ==
    /\ isRunning => startCall.probe = "ok"
    /\ hist.cyclesStarted > 0 => startCall.probe = "ok"
    /\ startCall.probe = "failed" =>
          /\ startCall.pc = "returned"
          /\ ~isRunning
          /\ intervalId = NoId /\ timers = {}
          /\ hist.cyclesStarted = 0 /\ cycles = {}
          /\ lastCheckedPostId = NoId

\* the probe failed, the forum holds posts and every interval has elapsed
C15_Witness ==
    /\ startCall.probe = "failed"
    /\ startCall.pc = "returned"
    /\ feed # <<>>
    /\ now = MaxIntervals * checkIntervalMs
    /\ ~isRunning /\ timers = {} /\ hist.cyclesStarted = 0

\* C16. Stop is effective: once stop() has returned no interval timer is
\* armed and no poll cycle is started any more, also when stop() is called
\* while start() awaits the probe or the immediate check.
C16_StopEffective ==
    hist.stoppedDuringStart => (timers = {} /\ ~hist.startedAfterStop)

\* C17. Poll cycles do not overlap: no cycle is started while the
\* asynchronous work of an earlier one is in progress.
C17_NonOverlapping ==
    Cardinality(cycles) <= 1

\* C17, amended: the immediate check never runs beside another cycle; the
\* cycles in progress at once are calls started by distinct firings of the
\* timer, which fires whether or not an earlier cycle has ended.
C17_OverlapOnlyOfTimerCycles ==
    /\ \A c \in cycles : c.origin = "immediate" => cycles = {c}
    /\ \A c, d \in cycles : c.id = d.id => c = d
    /\ Cardinality({c \in cycles : c.origin = "timer"}) <= hist.timerCycles
    /\ Cardinality(cycles) > 1 => hist.immediateDone

\* two cycles started by the timer are in progress, the earlier one still
\* awaits the forum
C17_Witness ==
    \E c, d \in cycles :
        /\ c.id < d.id
        /\ c.origin = "timer" /\ d.origin = "timer"
        /\ c.phase = "detect"

CleanupEvery == 10

\* C26. Periodic cleanup runs every Nth poll cycle: of the cycles completed
\* so far at most one in CleanupEvery has swept the sent tracker.
C26_CleanupCadence ==
    hist.sweeps * CleanupEvery <= hist.cyclesCompleted + (CleanupEvery - 1)

(***************************************************************************)
(* checkForAnswers cycle after cycle while hours pass: one question is      *)
(* listed, its answers arrive one by one, the fetch of its answers          *)
(* succeeds or throws, the cleanup ends each call.                          *)
(* hist keeps the answers that were listed and not stored when the fetch of *)
(* a tracked question threw (owed), those of them a later fetch returned as *)
(* new (recovered), those the first later fetch that succeeded listed and   *)
(* did not return (lostAnswers), and those of the latter whose question had *)
(* its entry at that fetch (lostWhileTracked).                              *)
(***************************************************************************)
\* A failed fetch after which the listed ids are stored all the same.
TrackedAfterFetchStoresAnyway(tracked, ok, questionId, questionTitle, answerIds, t) ==
    UpdateQuestionAnswers(tracked, questionId, questionTitle, answerIds, t)

\* monitor.ts lines 131-141 and 194-199: updateQuestionAnswers is called
\* with the ids of the answers fetched; when the fetch throws the catch logs
\* and the tracker is not called
TrackedAfterFetch(tracked, ok, questionId, questionTitle, answerIds, t) ==
    IF ok
    THEN UpdateQuestionAnswers(tracked, questionId, questionTitle, answerIds, t)
    ELSE tracked

\* The answers of questionId in a set of pairs of a question and an answer.
AnswersIn(pairs, questionId) == {p[2] : p \in {x \in pairs : x[1] = questionId}}

PairsOf(questionId, answers) == {<<questionId, a>> : a \in answers}

\* What a fetch for questionId adds to the record of the answers owed.
RecordFetch(h, tracked, ok, questionId, answerIds) ==
    LET owed == AnswersIn(h.owed, questionId)
        listed == SeqToSet(answerIds)
        returned == SeqToSet(NewAnswerIds(tracked, questionId, answerIds))
    IN  IF ok
        THEN [h EXCEPT
                !.owed = @ \ PairsOf(questionId, owed),
                !.recovered = @ \cup PairsOf(questionId, owed \cap returned),
                !.lostAnswers =
                    @ \cup PairsOf(questionId, (owed \cap listed) \ returned),
                !.lostWhileTracked =
                    @ \cup (IF IsTracked(tracked, questionId)
                            THEN PairsOf(questionId, (owed \cap listed) \ returned)
                            ELSE {})]
        ELSE IF IsTracked(tracked, questionId)
        THEN [h EXCEPT !.owed = @ \cup PairsOf(questionId,
                                    listed \ tracked[questionId].answerIds)]
        ELSE h

AnswerRetryInit ==
    /\ now = 0
    /\ lastCheckedPostId = NoId
    /\ sentQuestions = <<>>
    /\ trackedQuestions = EmptyMap
    /\ last = NoCall
    /\ feed = <<Post(1, {})>>
    /\ pc = "idle"
    /\ newPosts = <<>>
    /\ sending = NoSend
    /\ inflight = {}
    /\ chat = {}
    /\ cb = NoCallback
    /\ isRunning = TRUE
    /\ intervalId = TimerId
    /\ timers = {TimerId}
    /\ startCall = [pc |-> "returned", probe |-> "ok"]
    /\ cycles = {}
    /\ process = "up"
    /\ hist = NoHistory
    /\ forumAnswers = [q \in {1} |-> 0]
    /\ answerCheck = NoAnswerCheck
    /\ newPostReplyWebhook = TRUE
    /\ forumComments = <<>>

retryRest == <<lastCheckedPostId, sentQuestions, feed, pc, newPosts, sending,
               inflight, chat, cb, isRunning, intervalId, timers, startCall,
               cycles, process, newPostReplyWebhook, forumComments>>

\* Twelve hours pass.
AnswerRetryTick ==
    /\ now + AnswerTickMs <= MaxAnswerTicks * AnswerTickMs
    /\ now' = now + AnswerTickMs
    /\ UNCHANGED <<trackedQuestions, last, hist, forumAnswers, answerCheck>>
    /\ UNCHANGED retryRest

\* monitor.ts lines 131-149 and 194-199: the answers of the next question
\* arrive, or the request throws.
AnswerRetryFetchDone ==
    /\ answerCheck.phase = "loop"
    /\ answerCheck.remaining # <<>>
    /\ \E ok \in BOOLEAN :
         LET questionId == Head(answerCheck.remaining)
             answerIds == AnswersOfQuestion(questionId)
             newAnswerIds == NewAnswerIds(trackedQuestions, questionId, answerIds)
         IN  /\ trackedQuestions' =
                   TrackedAfterFetch(trackedQuestions, ok, questionId,
                                     TitleOfPost(questionId), answerIds, now)
             /\ answerCheck' =
                   IF ok
                   THEN AfterFetch(answerCheck, questionId, answerIds, newAnswerIds)
                   ELSE AfterFetchFailure(answerCheck, questionId)
             /\ hist' = RecordFetch(hist, trackedQuestions, ok, questionId, answerIds)
             /\ last' = [op |-> "fetchAnswers", ok |-> ok,
                         questionId |-> questionId,
                         wasTracked |-> IsTracked(trackedQuestions, questionId),
                         pre |-> trackedQuestions,
                         calls |-> answerCheck.calls]
    /\ UNCHANGED <<now, forumAnswers>>
    /\ UNCHANGED retryRest

AnswerRetryNext ==
    \/ AnswerRetryTick
    \/ AnswerPosted
    \/ AnswerCheckBegins
    \/ AnswerRetryFetchDone
    \/ AnswerReplyDone
    \/ AnswerCheckEnds

SpecAnswerRetry == AnswerRetryInit /\ [][AnswerRetryNext]_vars

(***************************************************************************)
(* checkForNewPosts over a feed that only grows at its newest end, one call *)
(* at a time.  The feed may grow by more than a page between two calls.     *)
(* hist keeps the ids the calls have returned (reported), those returned    *)
(* more than once (twice), the baseline as it was first set (established),  *)
(* the size of the feed at the last call whose fetch succeeded (polledUpTo),*)
(* the posts created since (sincePoll) and whether more than a page of      *)
(* posts was ever created between two such calls (burst).                   *)
(***************************************************************************)
MaxFeedLen == 12   \* questions the forum ever holds

\* A listing one post shorter than asked for.
RecentPageShort(posts) == FirstN(posts, PageSize - 1)

\* getRecentPosts(1, 10) with order "newest": answersApi.ts lines 217-241, 268
RecentPage(posts) == FirstN(posts, PageSize)

FeedInit ==
    /\ CycleAtRest
    /\ now = 0
    /\ lastCheckedPostId = NoId
    /\ sentQuestions = <<>>
    /\ trackedQuestions = EmptyMap
    /\ last = NoCall

feedRest == <<now, sentQuestions, trackedQuestions, pc, newPosts, sending,
              inflight, chat, cb, isRunning, intervalId, timers, startCall,
              cycles, process, forumAnswers, answerCheck, newPostReplyWebhook,
              forumComments>>

\* Somebody asks a question on the forum.
FeedGrows ==
    /\ Len(feed) < MaxFeedLen
    /\ feed' = <<Post(Len(feed) + 1, {})>> \o feed
    /\ hist' = [hist EXCEPT !.sincePoll = @ + 1]
    /\ last' = NoCall
    /\ UNCHANGED lastCheckedPostId
    /\ UNCHANGED feedRest

RecordPoll(h, baseline, posts, ret) ==
    [h EXCEPT !.reported = @ \cup SeqToSet(Ids(ret)),
              !.twice = @ \cup (h.reported \cap SeqToSet(Ids(ret))),
              !.established = IF h.established = NoId
                              THEN BaselineAfter(baseline, RecentPage(posts))
                              ELSE @,
              !.burst = @ \/ (h.established # NoId /\ h.sincePoll > PageSize),
              !.polledUpTo = Len(posts),
              !.sincePoll = 0]

\* answersApi.ts lines 266-298: one call, whose fetch succeeds or throws.
FeedPoll ==
    /\ \E fetched \in BOOLEAN :
         /\ ApiCheckForNewPosts(fetched, RecentPage(feed))
         /\ hist' = IF fetched
                    THEN RecordPoll(hist, lastCheckedPostId, feed,
                                    NewPostsReturned(lastCheckedPostId, RecentPage(feed)))
                    ELSE hist
    /\ UNCHANGED feed
    /\ UNCHANGED feedRest

FeedNext == FeedGrows \/ FeedPoll

SpecFeed == FeedInit /\ [][FeedNext]_vars

(***************************************************************************)
(* The message-id comments of one question: the callback handlers post      *)
(* them, users post comments of their own, getTeamsMessageIdForQuestion     *)
(* reads the listing.  A message id is the sequence of its words: none for  *)
(* an empty id, more than one for an id with whitespace in it.              *)
(***************************************************************************)
MaxListedComments == 2   \* comments of the question
MaxIdWords == 2          \* words of a message id

IdWords == {"m1", "m2"}

MessageIds == UNION {[1..n -> IdWords] : n \in 0..MaxIdWords}

\* What users write: no marker, the marker with nothing after it, the marker
\* with an id in the middle of a sentence.
UserTexts == {<<"thanks">>, <<Marker>>, <<"see", Marker, "m2">>}

Texts(comments) == [i \in 1..Len(comments) |-> comments[i].text]

MessageIdInit ==
    /\ CycleAtRest
    /\ now = 0
    /\ lastCheckedPostId = NoId
    /\ sentQuestions = <<>>
    /\ trackedQuestions = EmptyMap
    /\ last = NoCall

messageIdRest == <<now, lastCheckedPostId, sentQuestions, trackedQuestions>>

\* sentQuestionsTracker.ts lines 316-330 and 434-456, answersApi.ts lines
\* 303-330: a handler posts the comment with the message id of its request;
\* the forum lists it after the others, or the request fails.
HandlerPostsComment ==
    /\ Len(forumComments) < MaxListedComments
    /\ \E messageId \in MessageIds, ok \in BOOLEAN :
         /\ forumComments' =
               IF ok
               THEN Append(forumComments,
                           [text |-> MessageIdComment(messageId),
                            by |-> "handler", messageId |-> messageId])
               ELSE forumComments
         /\ last' = [op |-> "postComment", ok |-> ok]
    /\ UNCHANGED messageIdRest
    /\ UNCHANGED cycleVars
    /\ UNCHANGED <<isRunning, intervalId, timers, startCall, cycles, process,
                   hist, forumAnswers, answerCheck, newPostReplyWebhook>>

\* A user comments the question.
UserPostsComment ==
    /\ Len(forumComments) < MaxListedComments
    /\ \E text \in UserTexts :
         forumComments' = Append(forumComments,
                                 [text |-> text, by |-> "user", messageId |-> <<>>])
    /\ last' = NoCall
    /\ UNCHANGED messageIdRest
    /\ UNCHANGED cycleVars
    /\ UNCHANGED <<isRunning, intervalId, timers, startCall, cycles, process,
                   hist, forumAnswers, answerCheck, newPostReplyWebhook>>

\* answersApi.ts lines 502-532: the lookup, on the listing as it is.
MessageIdLookup ==
    /\ \E fetched \in BOOLEAN :
         last' = [op |-> "getTeamsMessageIdForQuestion", fetched |-> fetched,
                  ret |-> GetTeamsMessageIdForQuestion(fetched, Texts(forumComments))]
    /\ UNCHANGED forumComments
    /\ UNCHANGED messageIdRest
    /\ UNCHANGED cycleVars
    /\ UNCHANGED <<isRunning, intervalId, timers, startCall, cycles, process,
                   hist, forumAnswers, answerCheck, newPostReplyWebhook>>

MessageIdNext ==
    \/ HandlerPostsComment
    \/ UserPostsComment
    \/ MessageIdLookup

SpecMessageId == MessageIdInit /\ [][MessageIdNext]_vars

(***************************************************************************)
(* Properties of checkForNewPosts, checked under SpecPosts.                *)
(***************************************************************************)
Polled == last.op = "checkForNewPosts" /\ last.fetched

\* The position of id in posts, 0 when absent.
IndexOfId(posts, id) ==
    IF \E i \in 1..Len(posts) : posts[i].id = id
    THEN CHOOSE i \in 1..Len(posts) : posts[i].id = id
    ELSE 0

\* C2. Cold start: with the baseline unset a call returns the empty sequence
\* whatever page was fetched; afterwards the baseline is the id of the page's
\* first post, or still unset when the page is empty.
C2_ColdStart ==
    (Polled /\ last.pre = NoId) =>
        /\ last.ret = <<>>
        /\ lastCheckedPostId =
              (IF Len(last.page) = 0 THEN NoId ELSE last.page[1].id)

C2_Witness ==
    /\ Polled /\ last.pre = NoId
    /\ Len(last.page) = MaxPageLen
    /\ lastCheckedPostId = last.page[1].id

\* C3. Steady state: with the baseline at position k+1 of the page a call
\* returns exactly the k posts before it, in the order received, and for
\* k > 0 the baseline becomes the id of the page's first post.
C3_SteadyState ==
    (Polled /\ last.pre # NoId /\ IndexOfId(last.page, last.pre) > 0) =>
        LET k == IndexOfId(last.page, last.pre) - 1
        IN  /\ last.ret = SubSeq(last.page, 1, k)
            /\ k > 0 => lastCheckedPostId = last.page[1].id

\* baseline P1, page [P3, P2, P1]: returns [P3, P2], baseline P3
C3_Witness ==
    /\ Polled /\ last.pre = 1
    /\ Ids(last.page) = <<3, 2, 1>>
    /\ Ids(last.ret) = <<3, 2>>
    /\ lastCheckedPostId = 3

\* C4. Frame condition of the baseline: a call changes it only if it was unset
\* or the call returns something; with the baseline first on the page, or an
\* empty page, or a failed fetch, the call returns nothing and leaves it.
C4_BaselineFrame ==
    last.op = "checkForNewPosts" =>
        /\ lastCheckedPostId # last.pre => (last.pre = NoId \/ last.ret # <<>>)
        /\ (/\ last.pre # NoId
            /\ \/ Len(last.page) = 0
               \/ last.page[1].id = last.pre)
           => (last.ret = <<>> /\ lastCheckedPostId = last.pre)

\* baseline P2, page [P2, P1]: nothing returned, baseline still P2
C4_Witness ==
    /\ Polled /\ last.pre = 2
    /\ Ids(last.page) = <<2, 1>>
    /\ last.ret = <<>>
    /\ lastCheckedPostId = 2

\* C5. Baseline scrolled off: with the baseline set and absent from a
\* non-empty page, a call returns the whole page and the baseline becomes the
\* id of the page's first post.
C5_ScrolledOff ==
    (/\ Polled /\ last.pre # NoId
     /\ Len(last.page) > 0
     /\ IndexOfId(last.page, last.pre) = 0)
    => (last.ret = last.page /\ lastCheckedPostId = last.page[1].id)

C5_Witness ==
    /\ Polled /\ last.pre = 1
    /\ Ids(last.page) = <<4, 3, 2>>
    /\ last.ret = last.page
    /\ lastCheckedPostId = 4

(***************************************************************************)
(* Properties of SentQuestionsTracker, checked under SpecTracker.          *)
(***************************************************************************)
Age(entry) == now - entry.sentAt

EntrySet(store) == {store[i] : i \in 1..Len(store)}

KeySet(store) == {store[i].id : i \in 1..Len(store)}

C7_BoundedStore == Len(sentQuestions) <= maxStoredQuestions

\* a fresh id recorded into a full store
C7_Witness ==
    /\ last.op = "trackSentQuestion"
    /\ Len(last.pre) = maxStoredQuestions
    /\ ~HasKey(last.pre, last.post.id)
    /\ Len(sentQuestions) = maxStoredQuestions

\* C8. Recording a fresh id into a full store removes exactly one entry, one
\* of smallest sentAt among the stored entries and the new one; recording a
\* fresh id below the cap appends; recording a stored id overwrites that
\* entry in place and removes nothing.
C8_EvictOldest ==
    last.op = "trackSentQuestion" =>
        LET new == [id |-> last.post.id, title |-> last.post.title,
                    sentAt |-> last.at]
            all == EntrySet(last.pre) \cup {new}
        IN  IF HasKey(last.pre, new.id)
            THEN /\ Len(sentQuestions) = Len(last.pre)
                 /\ \A i \in 1..Len(last.pre) :
                       sentQuestions[i] =
                          IF last.pre[i].id = new.id THEN new ELSE last.pre[i]
            ELSE IF Len(last.pre) + 1 > maxStoredQuestions
            THEN /\ Len(sentQuestions) = maxStoredQuestions
                 /\ \E victim \in all :
                       /\ \A e \in all : victim.sentAt <= e.sentAt
                       /\ EntrySet(sentQuestions) = all \ {victim}
            ELSE sentQuestions = Append(last.pre, new)

\* 101 distinct ids recorded: 100 are left and only the oldest is absent
C8_Witness ==
    /\ last.op = "trackSentQuestion"
    /\ last.post.id = maxStoredQuestions + 1
    /\ Len(sentQuestions) = maxStoredQuestions
    /\ KeySet(sentQuestions) =
          (1..(maxStoredQuestions + 1)) \ {maxStoredQuestions \div 2}
    /\ \A e \in EntrySet(last.pre) :
          e.id # maxStoredQuestions \div 2 => e.sentAt > 0

\* C9. The sweep removes exactly the entries older than one hour and keeps the
\* others as they are; an entry older than ten minutes is never what makes
\* isDuplicate answer true, stored though it is.
C9_TwoWindows ==
    /\ last.op = "clearOldQuestions" =>
          sentQuestions =
             SelectSeq(last.pre, LAMBDA e : last.at - e.sentAt <= MaxAgeMs)
    /\ (/\ last.op = "isDuplicateMessage"
        /\ \A e \in EntrySet(sentQuestions) :
              Includes(last.messageContent, e.title) => Age(e) > DuplicateWindowMs)
       => ~last.ret

\* a sweep that removes an entry of 70 minutes and keeps one of 30 minutes
C9_Witness ==
    /\ last.op = "clearOldQuestions"
    /\ \E e \in EntrySet(last.pre) :
          last.at - e.sentAt > MaxAgeMs /\ e \notin EntrySet(sentQuestions)
    /\ \E e \in EntrySet(sentQuestions) :
          Age(e) = 3 * DuplicateWindowMs

(***************************************************************************)
(* Properties of AnswerTracker, checked under SpecAnswers.                 *)
(***************************************************************************)
\* C10. Answer cold start: an update for a question that is not tracked
\* returns the empty sequence and stores exactly the given ids, whatever
\* they are.
C10_AnswerColdStart ==
    (last.op = "updateQuestionAnswers" /\ ~last.wasTracked) =>
        /\ last.ret = <<>>
        /\ IsTracked(trackedQuestions, last.questionId)
        /\ trackedQuestions[last.questionId].answerIds = SeqToSet(last.answerIds)

\* a question first seen with MaxAnswerId answers: all stored, none reported
C10_Witness ==
    /\ last.op = "updateQuestionAnswers"
    /\ ~last.wasTracked
    /\ Len(last.answerIds) = MaxAnswerId
    /\ last.ret = <<>>
    /\ Cardinality(trackedQuestions[last.questionId].answerIds) = MaxAnswerId

UpdatedAnswers == last.op = "updateQuestionAnswers"

\* position of an id in a sequence of distinct ids
PositionOf(ids, a) == CHOOSE i \in 1..Len(ids) : ids[i] = a

\* ret holds distinct ids of `ids`, in the order `ids` has them
InOrderOf(ret, ids) ==
    /\ \A i \in 1..Len(ret) : \E j \in 1..Len(ids) : ids[j] = ret[i]
    /\ \A i, j \in 1..Len(ret) :
          i < j => PositionOf(ids, ret[i]) < PositionOf(ids, ret[j])

\* C11. Answer delta: for a tracked question the update returns exactly the
\* given ids that were not stored, in the order of the input; afterwards the
\* stored set is the set of the given ids, lastCheckedAt is the time of the
\* call and the stored title is the given title.
C11_AnswerDelta ==
    (UpdatedAnswers /\ last.wasTracked) =>
        /\ SeqToSet(last.ret) = SeqToSet(last.answerIds) \ last.previous
        /\ InOrderOf(last.ret, last.answerIds)
        /\ trackedQuestions[last.questionId] =
              [questionTitle |-> last.questionTitle,
               answerIds |-> SeqToSet(last.answerIds),
               lastCheckedAt |-> last.at]

\* a tracked question with one stored answer gets a second one and a new
\* title at a later time: the new id alone is returned
C11_Witness ==
    /\ UpdatedAnswers /\ last.wasTracked
    /\ Cardinality(last.previous) = 1
    /\ Len(last.answerIds) = 2
    /\ last.answerIds[1] \in last.previous
    /\ last.ret = <<last.answerIds[2]>>
    /\ last.pre[last.questionId].questionTitle # last.questionTitle
    /\ last.pre[last.questionId].lastCheckedAt < last.at

\* C12. Idempotence: an update of a tracked question with the ids that are
\* stored already returns the empty sequence and leaves the stored set as it
\* was; an empty list of ids is accepted and returns no new answer.
C12_AnswerIdempotence ==
    UpdatedAnswers =>
        /\ (last.wasTracked /\ SeqToSet(last.answerIds) = last.previous) =>
              /\ last.ret = <<>>
              /\ trackedQuestions[last.questionId].answerIds = last.previous
        /\ last.answerIds = <<>> =>
              /\ last.ret = <<>>
              /\ trackedQuestions[last.questionId].answerIds = {}

\* the same two answers are given again for a tracked question
C12_Witness ==
    /\ UpdatedAnswers /\ last.wasTracked
    /\ Cardinality(last.previous) = MaxAnswerId
    /\ SeqToSet(last.answerIds) = last.previous
    /\ last.ret = <<>>

\* C13. Snapshot: after an update the stored ids of its question are the ids
\* of that call, not those of earlier calls as well, and every other question
\* keeps its entry; an id that disappeared is neither stored nor returned.
C13_Snapshot ==
    UpdatedAnswers =>
        /\ trackedQuestions[last.questionId].answerIds = SeqToSet(last.answerIds)
        /\ \A q \in DOMAIN last.pre \ {last.questionId} :
              IsTracked(trackedQuestions, q) /\ trackedQuestions[q] = last.pre[q]
        /\ \A a \in last.previous \ SeqToSet(last.answerIds) :
              /\ a \notin trackedQuestions[last.questionId].answerIds
              /\ a \notin SeqToSet(last.ret)

\* an answer that was stored is gone from the forum while another one is new
C13_Witness ==
    /\ UpdatedAnswers /\ last.wasTracked
    /\ last.previous \ SeqToSet(last.answerIds) # {}
    /\ SeqToSet(last.answerIds) \ last.previous # {}
    /\ trackedQuestions[last.questionId].answerIds = SeqToSet(last.answerIds)

CleanedUp == last.op = "cleanupOldQuestions"

\* C14. cleanupOldQuestions removes the questions whose lastCheckedAt is more
\* than 24 hours before the call and no other, keeps the entries of the rest,
\* and a second call at the same time changes nothing.
C14_StaleCleanup ==
    CleanedUp =>
        /\ DOMAIN trackedQuestions \subseteq DOMAIN last.pre
        /\ \A q \in DOMAIN last.pre :
              /\ IsTracked(trackedQuestions, q) <=>
                    last.at - last.pre[q].lastCheckedAt <= QuestionMaxAgeMs
              /\ IsTracked(trackedQuestions, q) => trackedQuestions[q] = last.pre[q]
        /\ CleanupOldQuestions(trackedQuestions, last.at) = trackedQuestions

\* a question last checked 36 hours before the call is removed
C14_Witness ==
    /\ CleanedUp
    /\ \E q \in DOMAIN last.pre :
          /\ last.at - last.pre[q].lastCheckedAt = 3 * AnswerTickMs
          /\ ~IsTracked(trackedQuestions, q)

\* a question last checked exactly 24 hours before the call is retained
C14_RetainedAtBoundary ==
    /\ CleanedUp
    /\ \E q \in DOMAIN last.pre :
          /\ last.at - last.pre[q].lastCheckedAt = QuestionMaxAgeMs
          /\ IsTracked(trackedQuestions, q)

(***************************************************************************)
(* Properties of PostMonitor.checkForAnswers, checked under                 *)
(* SpecAnswerCycle.                                                         *)
(***************************************************************************)
\* the questions the loop of the call in progress has dealt with
DealtWith ==
    SeqToSet(answerCheck.listed) \ SeqToSet(answerCheck.remaining)

\* C20. Per-question isolation: a question whose answers cannot be fetched
\* stops nothing: every other listed question the loop has reached had its
\* answers fetched and passed to updateQuestionAnswers, and its new answers
\* reported; when the loop is over it has reached every listed question.
C20_PerQuestionIsolation ==
    answerCheck.phase # "idle" =>
        /\ answerCheck.failed \subseteq DealtWith
        /\ \A q \in DealtWith \ answerCheck.failed :
              \E call \in answerCheck.calls :
                  /\ call.questionId = q
                  /\ IsTracked(trackedQuestions, q)
                  /\ trackedQuestions[q].answerIds = SeqToSet(call.answerIds)
                  /\ call.newAnswerIds # <<>> =>
                        [questionId |-> q, newAnswerIds |-> call.newAnswerIds]
                            \in answerCheck.reported
        /\ \A q \in SeqToSet(answerCheck.listed) :
              q \in DealtWith \/
              \E i \in 1..Len(answerCheck.remaining) : answerCheck.remaining[i] = q
        /\ Len(answerCheck.remaining) + Cardinality(DealtWith)
              = Len(answerCheck.listed)

\* the fetch for the first question of the list threw, and the question after
\* it was fetched and its new answer reported
C20_Witness ==
    /\ answerCheck.phase = "loop"
    /\ answerCheck.remaining = <<>>
    /\ answerCheck.failed = {Head(answerCheck.listed)}
    /\ \E r \in answerCheck.reported :
          r.questionId = answerCheck.listed[Len(answerCheck.listed)]



\* a comment in which the marker is followed by a word
HasMessageId(text) == \E i \in 1..(Len(text) - 1) : text[i] = Marker

\* the lookup of the reply step just taken received a comment with a message id
MessageIdFound ==
    /\ last.fetched
    /\ \E k \in 1..Len(last.comments) : HasMessageId(last.comments[k])

\* C24 as stated: for a question with new answers a reply is sent exactly when
\* a message id is found in its comments.
C24_ReplyIff ==
    last.op = "reply" =>
        /\ answerCheck.current.newAnswerIds # <<>>
        /\ last.requests # {} <=> MessageIdFound

\* C24, amended.  A reply is posted for a question exactly when the call of
\* updateQuestionAnswers returned new answer ids for it, the lookup of its
\* comments succeeded and found a message id, and a reply webhook is
\* configured.  The reply names the id of the first comment that has one and
\* carries the answers whose ids were returned as new, no other; a question
\* gets at most one reply in a call.
C24_ThreadedReply ==
    /\ last.op = "reply" =>
          LET call == answerCheck.current
          IN  /\ call.questionId = last.questionId
              /\ call.newAnswerIds # <<>>
              /\ last.requests # {} <=> (MessageIdFound /\ newPostReplyWebhook)
              /\ last.requests \subseteq answerCheck.replies
              /\ \A r \in last.requests :
                    /\ r.questionId = last.questionId
                    /\ \E k \in 1..Len(last.comments) :
                          /\ HasMessageId(last.comments[k])
                          /\ \A j \in 1..(k - 1) : ~HasMessageId(last.comments[j])
                          /\ \E i \in 1..(Len(last.comments[k]) - 1) :
                                /\ last.comments[k][i] = Marker
                                /\ r.messageId = last.comments[k][i + 1]
    /\ answerCheck.phase # "idle" =>
          /\ \A r \in answerCheck.replies :
                \E call \in answerCheck.calls :
                    /\ call.questionId = r.questionId
                    /\ call.newAnswerIds # <<>>
                    /\ SeqToSet(r.answers) = SeqToSet(call.newAnswerIds)
                    /\ Len(r.answers) = Len(call.newAnswerIds)
          /\ \A r1, r2 \in answerCheck.replies :
                r1.questionId = r2.questionId => r1 = r2

\* a reply was posted that carries the new answer of a question and not the
\* answer the tracker already knew
C24_Witness ==
    /\ last.op = "reply"
    /\ \E r \in last.requests :
          /\ r.answers # <<>>
          /\ Len(r.answers) < Len(answerCheck.current.answerIds)


(***************************************************************************)
(* Properties of the routing, checked under SpecRouting.                    *)
(***************************************************************************)
\* the positions of the configured channels that match the post of the call
MatchedChannels ==
    {i \in 1..Len(last.channels) :
        \/ last.channels[i].tags = {}
        \/ \E t \in last.channels[i].tags : t \in last.post.tags}

\* the names of the channels a request was issued to
RequestedNames == {last.requests[i].channelName : i \in 1..Len(last.requests)}

\* C25. Destination routing: a request goes to every configured channel
\* whose tag list is empty or shares a tag with the post, once each and to no
\* other configured channel; to the default channel exactly when no configured
\* channel matches and a default is configured; with no match and no default
\* no request is issued and the sent store is left as it was.
C25_Routing ==
    last.op = "sendPostToTeams" =>
        /\ \A i \in 1..Len(last.channels) :
              last.channels[i].channelName \in RequestedNames <=> i \in MatchedChannels
        /\ defaultChannel.channelName \in RequestedNames
              <=> (MatchedChannels = {} /\ last.default # NoChannel)
        /\ Len(last.requests) = IF MatchedChannels # {}
                                THEN Cardinality(MatchedChannels)
                                ELSE IF last.default # NoChannel THEN 1 ELSE 0
        /\ (MatchedChannels = {} /\ last.default = NoChannel) =>
              /\ last.requests = <<>>
              /\ sentQuestions = last.pre

\* no configured channel has a tag of the post, and it went to the default
C25_Witness ==
    /\ last.op = "sendPostToTeams"
    /\ last.channels # <<>>
    /\ last.post.tags # {}
    /\ MatchedChannels = {}
    /\ RequestedNames = {defaultChannel.channelName}
    /\ sentQuestions # last.pre

(***************************************************************************)
(* Properties of the steps of the poll cycle, checked under SpecCycle.      *)
(***************************************************************************)
\* C22. Fetch failure in a cycle.  When the listing of step 1 fails,
\* checkForNewPosts returns no post and leaves the baseline as it was; the
\* cycle goes on to the answer detection (no cycle ends without it); and
\* the successful step 1 of the next cycle computes its new posts against
\* that same baseline.  When the listing of step 2 fails, the tracked
\* questions are what they were before the call.
FailedPoll(r) == r.op = "checkForNewPosts" /\ ~r.fetched

C22_FetchFailure ==
    /\ last.op = "checkForNewPosts" =>
          /\ pc \in {"forward", "answers"}
          /\ FailedPoll(last) =>
                /\ last.ret = <<>>
                /\ newPosts = <<>>
                /\ lastCheckedPostId = last.pre
          /\ (last.fetched /\ FailedPoll(hist.prevPoll)) =>
                /\ last.pre = hist.prevPoll.pre
                /\ last.ret = NewPostsReturned(hist.prevPoll.pre, last.page)
    /\ last.op = "checkForAnswers" =>
          /\ FailedPoll(last.poll) =>
                /\ last.poll.ret = <<>>
                /\ lastCheckedPostId = last.poll.pre
          /\ ~last.listed => trackedQuestions = last.pre
    /\ pc \in {"idle", "cleanup"} => last.op \in {"none", "checkForAnswers"}

\* step 1 failed in a cycle, which went on to its answer detection and ended;
\* the next cycle then found a new post against the baseline left alone
C22_Witness ==
    /\ last.op = "checkForNewPosts"
    /\ last.fetched
    /\ FailedPoll(hist.prevPoll)
    /\ last.ret # <<>>
    /\ pc = "forward"

(***************************************************************************)
(* Properties of the callback handlers, checked under SpecCallback.         *)
(***************************************************************************)
TeamsAnswered == last.op = "answered" /\ last.endpoint = "teams-message"

FailedCalls == {i \in 1..Len(last.calls) : ~last.calls[i].ok}

Steps(calls) == [i \in 1..Len(calls) |-> calls[i].step]

\* C23. A request to the teams-message endpoint whose content is a text,
\* and any request to the power-automate endpoint, is answered with status
\* 200 and success true: when it was a duplicate, and whatever calls to the
\* forum (question, comments) or to the chat (notification) failed.
C23_AlwaysOk ==
    (/\ last.op = "answered"
     /\ last.endpoint = "teams-message" => last.request.isText)
    => (last.status = 200 /\ last.success)

\* the comment and the notification failed, the answer was 200
C23_Witness ==
    /\ TeamsAnswered
    /\ Steps(last.calls) = <<"postQuestion", "postComment", "notify">>
    /\ FailedCalls = {2, 3}
    /\ last.status = 200

\* C29. A duplicate is answered with no call to the forum or to the chat,
\* with the forum's questions and the sent store as they were.  Any other
\* text is posted as a question first; when that succeeded the comment is
\* posted next and the notification sent last, whether or not the comment
\* succeeded, and the question stays on the forum; while the handler is at
\* work the calls it has made are a prefix of these three.
C29_DuplicateShortCircuit ==
    /\ (TeamsAnswered /\ last.isDuplicate) =>
          /\ last.calls = <<>>
          /\ feed = last.questions
          /\ sentQuestions = last.pre
    /\ (TeamsAnswered /\ last.request.isText /\ ~last.isDuplicate) =>
          /\ last.calls # <<>>
          /\ last.calls[1].step = "postQuestion"
          /\ IF last.calls[1].ok
             THEN /\ Steps(last.calls) = <<"postQuestion", "postComment", "notify">>
                  /\ Len(feed) = Len(last.questions) + 1
                  /\ Tail(feed) = last.questions
                  /\ Head(feed).title = MessageTitle(StripTags(last.request.messageContent))
             ELSE /\ Len(last.calls) = 1
                  /\ feed = last.questions
    /\ (cb # NoCallback /\ cb.endpoint = "teams-message") =>
          /\ Steps(cb.calls) = SubSeq(<<"postQuestion", "postComment", "notify">>,
                                      1, Len(cb.calls))
          /\ cb.calls # <<>> => (cb.calls[1].ok /\ Tail(feed) = cb.questions)

\* a duplicate was answered while the forum held a question of an earlier
\* callback
C29_Witness ==
    /\ TeamsAnswered
    /\ last.isDuplicate
    /\ last.calls = <<>>
    /\ feed # <<>>

(***************************************************************************)
(* Properties of overlapping cycles, checked under SpecOverlap.             *)
(***************************************************************************)
Overlapping(p, q) == p.id \in q.overlaps \/ q.id \in p.overlaps

SamePage(p, q) == p.fetched /\ q.fetched /\ p.page = q.page

\* C30. When two overlapping cycles have received the same page, at most
\* one of them returns posts: the new posts of the page are returned by one
\* cycle and the other returns none.
C30_NoDoubleReport ==
    \A i, j \in 1..Len(hist.polls) :
        (/\ i < j
         /\ Overlapping(hist.polls[i], hist.polls[j])
         /\ SamePage(hist.polls[i], hist.polls[j]))
        => (hist.polls[i].ret = <<>> \/ hist.polls[j].ret = <<>>)

(***************************************************************************)
(* Properties of the message-id comments, checked under SpecMessageId.      *)
(***************************************************************************)
CarriesMarker(c) == \E i \in 1..Len(c.text) : c.text[i] = Marker

\* a comment of a handler whose message id is not empty and has no whitespace
RoundTripComment(c) == c.by = "handler" /\ Len(c.messageId) = 1

MarkerComments == {i \in 1..Len(forumComments) : CarriesMarker(forumComments[i])}

C32_NoDoubleReport ==
    /\ hist.twice = {}
    /\ \A id \in hist.reported : hist.established # NoId /\ id > hist.established

\* a call did not find its baseline on the page and returned the whole page
C32_Witness ==
    /\ last.op = "checkForNewPosts"
    /\ last.fetched
    /\ last.pre # NoId
    /\ Len(last.ret) = PageSize
    /\ \A i \in 1..Len(last.page) : last.page[i].id # last.pre
    /\ hist.twice = {}

\* C33. With one call at a time, a feed that only grows at its newest end
\* and never more than a page of posts created between two calls whose
\* fetch succeeded, every post created after the call that set the baseline
\* has been returned once a call whose fetch succeeded has followed it.
C33_NoMiss ==
    (hist.established # NoId /\ ~hist.burst)
    => \A id \in (hist.established + 1)..hist.polledUpTo : id \in hist.reported

\* a full page of posts was created between two calls, all were returned
C33_Witness ==
    /\ last.op = "checkForNewPosts"
    /\ last.fetched
    /\ Len(last.ret) = PageSize
    /\ hist.established # NoId
    /\ ~hist.burst
    /\ \A id \in (hist.established + 1)..Len(feed) : id \in hist.reported

(***************************************************************************)
(* Properties of start() and stop() in any order, checked under             *)
(* SpecStartStop.                                                           *)
(***************************************************************************)
\* C34. At most one interval timer is armed in every state, whatever the
\* order of the calls of start() and stop(), a start() during the probe of
\* another included; a start() on a running monitor arms no timer and
\* begins no check.
C34_AtMostOneTimer ==
    /\ Cardinality(timers) <= 1
    /\ (last.op = "start" /\ last.wasRunning) =>
          (timers = last.timers /\ hist.immediateCycles = last.checks)

FailedFetchLeavesEntry ==
    (last.op = "fetchAnswers" /\ ~last.ok /\ last.wasTracked) =>
        /\ trackedQuestions = last.pre
        /\ answerCheck.calls = last.calls

\* C36 as stated. A failed fetch of the answers of a tracked question leaves
\* its entry unchanged, and every answer listed and not stored at that time
\* is returned as new by the first later fetch for the question that
\* succeeds and still lists it.
C36_NoAnswerLost ==
    /\ FailedFetchLeavesEntry
    /\ hist.lostAnswers = {}

\* C36. A failed fetch of the answers of a tracked question leaves its entry
\* unchanged, and every answer listed and not stored at that time is returned
\* as new by the first later fetch for the question that succeeds and still
\* lists it, provided the cleanup has not removed the entry of the question
\* before that fetch.
C36_NoAnswerLostWhileTracked ==
    /\ FailedFetchLeavesEntry
    /\ hist.lostWhileTracked = {}

\* A fetch has returned as new an answer that a failed fetch had left unstored.
C36_Witness ==
    /\ last.op = "fetchAnswers" /\ last.ok /\ last.wasTracked
    /\ \E p \in hist.recovered :
          /\ p[1] = last.questionId
          /\ p[2] \in trackedQuestions[p[1]].answerIds
          /\ p[2] \notin last.pre[p[1]].answerIds

\* C37. With a clock that does not go backwards, a call of trackSentQuestion
\* that evicts leaves the entry it wrote in the store, also when stored
\* entries have the sentAt of the new one.
C37_InsertedSurvives ==
    (/\ last.op = "trackSentQuestion"
     /\ ~HasKey(last.pre, last.post.id)
     /\ Len(last.pre) + 1 > maxStoredQuestions)
    => \E i \in 1..Len(sentQuestions) :
          sentQuestions[i] = [id |-> last.post.id, title |-> last.post.title,
                              sentAt |-> last.at]

\* An eviction from a store in which two or more entries have the sentAt of
\* the new one and none is older.
C37_Witness ==
    /\ last.op = "trackSentQuestion"
    /\ ~HasKey(last.pre, last.post.id)
    /\ Len(last.pre) + 1 > maxStoredQuestions
    /\ \A i \in 1..Len(last.pre) : last.pre[i].sentAt = last.at
    /\ Len(sentQuestions) = maxStoredQuestions

\* C38. A baseline that was set before a call is set after it, and in every
\* state the baseline is unset or the id of the first post of a page that
\* this call or an earlier one fetched.
C38_BaselineValid ==
    /\ (last.op = "checkForNewPosts" /\ last.pre # NoId) => lastCheckedPostId # NoId
    /\ lastCheckedPostId = NoId \/ lastCheckedPostId \in hist.firstIds

\* A set baseline is left as it was by an empty page or a failed fetch, after
\* pages of different first posts.
C38_Witness ==
    /\ last.op = "checkForNewPosts"
    /\ last.page = <<>>
    /\ last.pre # NoId
    /\ lastCheckedPostId = last.pre
    /\ Cardinality(hist.firstIds) > 1

=============================================================================
